---- MODULE Spec2Model ----
(***************************************************************************)
(* A model of the dependency-injection container of @wal-li/core           *)
(* (src/src/di.ts) and of the deep merge it uses (src/src/utils.ts).       *)
(*                                                                         *)
(* Values, tokens and providers share one universe of tagged records.      *)
(* The classes and the metadata their decorators leave behind are the     *)
(* table ClassTable, which the metadata store holds from the start;        *)
(* containers, the reflected parameter-type arrays, execution sessions     *)
(* and the objects behind proxies are the state.                           *)
(***************************************************************************)
EXTENDS Integers, Sequences, FiniteSets, TLC

VARIABLES
    containers,     \* c -> [registrationItems, resolveTokenStack]
    paramtypes,     \* class name -> the 'design:paramtypes' array of its constructor
    paramLists,     \* the arrays callers pass as options.params, by name
    nextId,         \* identity given to the next object created by `new`
    constructed,    \* c -> sequence of [token, cls, id, args], one per `new provider(...)`
    last,           \* the last call made on a container and what it returned or threw
    nregs,          \* c -> number of register() calls made by the caller
    ncalls,         \* c -> number of resolve() and execute() calls made by the caller
    sessions,       \* c -> the sessions of its execute() calls, in call order
    mg,             \* a call of merge: its arguments and, once made, its result
    px,             \* the proxies returned by resolve(token, proxyFn), the properties of
                    \* the objects behind them, and the last access made
    reflect         \* the metadata store: the classes as defined, the metadata
                    \* defined by decorators applied at run time, and the last call
                    \* of a static function of Container with its result

vars == <<containers, paramtypes, paramLists, nextId, constructed, last, nregs, ncalls, sessions, mg, px, reflect>>

----------------------------------------------------------------------------
(* Bounds *)

MaxRegs == 2        \* register() calls per container
NumContainers == 2  \* containers that exist side by side
MaxCalls == 2       \* resolve() and execute() calls per container
MaxSources == 2     \* sources passed to merge() besides the test's own call
MaxWrites == 2      \* property writes, directly and through proxies
MaxOps == 4         \* calls made on all containers together, where several are used
MaxDecorators == 2  \* createDecorator() calls made at run time
MaxAttach == 2      \* metadata entries written by decorators applied at run time

----------------------------------------------------------------------------
(* Values: InjectionToken | provider | resolved value *)

Undefined == [k |-> "undefined", v |-> "undefined", id |-> 0]
Str(s) == [k |-> "string", v |-> s, id |-> 0]
Sym(s) == [k |-> "symbol", v |-> s, id |-> 0]
Cls(n) == [k |-> "class", v |-> n, id |-> 0]
Obj(n, i) == [k |-> "object", v |-> n, id |-> i]

Range(s) == {s[i] : i \in 1..Len(s)}

IndexOf(s, e) == IF e \in Range(s) THEN CHOOSE i \in 1..Len(s) : s[i] = e /\ \A j \in 1..(i - 1) : s[j] # e ELSE 0

----------------------------------------------------------------------------
(* Data values handled by merge (src/src/utils.ts): numbers, strings,      *)
(* undefined, lists, plain objects (a function from keys to values) and    *)
(* class instances, which are objects but not plain ones.                  *)

JNum(n) == [t |-> "num", n |-> n]
JStr(s) == [t |-> "str", s |-> s]
JArr(a) == [t |-> "arr", items |-> a]
JObj(f) == [t |-> "obj", f |-> f]
JInst(n) == [t |-> "inst", cls |-> n]
JUndefined == [t |-> "undefined"]

\* what a method does instead of returning a value: it throws when called, or
\* the promise it returns is rejected
Throws(msg) == [t |-> "throw", msg |-> msg]
Rejects(msg) == [t |-> "reject", msg |-> msg]

isPlainObject(item) == item.t = "obj"
isArray(item) == item.t = "arr"

\* target[key], undefined when the target has no such key
targetValue(target, key) == IF key \in DOMAIN target.f THEN target.f[key] ELSE JUndefined

concat_Reversed(a, b) == JArr(b.items \o a.items)

\* targetValue.concat(sourceValue)
concat(a, b) == JArr(a.items \o b.items)

RECURSIVE merge(_, _)

\* the body of `for (const key in source)`: what target[key] becomes
mergeKey(target, source, key) ==
    IF isPlainObject(source.f[key])
    THEN merge(IF isPlainObject(targetValue(target, key)) THEN targetValue(target, key) ELSE JObj(<<>>),
               <<source.f[key]>>)
    ELSE IF isArray(source.f[key])
    THEN IF isArray(targetValue(target, key)) THEN concat(targetValue(target, key), source.f[key])
         ELSE JArr(source.f[key].items)
    ELSE source.f[key]

\* one turn of `for (const source of sources)`
mergeSource(target, source) ==
    IF isPlainObject(target) /\ isPlainObject(source)
    THEN JObj([key \in (DOMAIN target.f) \cup (DOMAIN source.f) |->
                  IF key \in DOMAIN source.f THEN mergeKey(target, source, key) ELSE target.f[key]])
    ELSE target

\* merge(target, ...sources)
merge(target, sources) ==
    IF Len(sources) = 0 THEN target
    ELSE merge(mergeSource(target, Head(sources)), Tail(sources))

----------------------------------------------------------------------------
(* The classes of the model and what their decorators recorded.            *)
(*   marker   : @Injectable() was applied to the class                      *)
(*   inject   : per constructor parameter, the arguments of @Inject(...)    *)
(*   hasTypes : 'design:paramtypes' was emitted for the constructor         *)
(*   types    : that array as emitted                                       *)
(*   throws   : the constructor throws                                      *)
(*   parent   : the class it extends                                        *)
(*   methods  : own methods in declaration order, each with                 *)
(*                tags    : the keys of the decorators applied to it        *)
(*                types   : its 'design:paramtypes' array                   *)
(*                inject  : per parameter, the arguments of @Inject(...)    *)
(*                returns : what a call of it resolves to                   *)

INJECTION_SYMBOL == "INJECTION_SYMBOL"
PARAMTYPE_METADATA == "design:paramtypes"

NoInject == [set |-> FALSE, token |-> Undefined, undefined |-> FALSE]
Inject(t) == [set |-> TRUE, token |-> t, undefined |-> FALSE]
InjectOpt(t) == [set |-> TRUE, token |-> t, undefined |-> TRUE]

Flow == "Flow"
Stop == "Stop"
Decorators == {Flow, Stop}

Method(name) == [name |-> name, tags |-> {}, types |-> <<>>, inject |-> <<>>, returns |-> JUndefined]
Hook(name, tags, types, returns) ==
    [name |-> name, tags |-> tags, types |-> types, inject |-> <<>>, returns |-> returns]

\* what a hook reports: its name in a list under "log", and a count under its own key
Report(name, key) == JObj([log |-> JArr(<<JStr(name)>>), n |-> JObj([k \in {key} |-> JNum(1)])])

ClassNames ==
    {"Object", "A", "B", "C", "D", "Foo", "Bar", "Hub", "Spoke", "Rim", "Opt", "Knot", "Loop", "Boom",
     "Lax", "Fuse", "Back", "ParentClass", "SomeClass", "Base", "Mid", "Leaf",
     "Ping", "Pong", "Twice", "Chip", "Mixed",
     "Trip", "Drop", "Gate"}

NoClass == [marker |-> FALSE, inject |-> <<>>, hasTypes |-> FALSE, types |-> <<>>, throws |-> FALSE,
            parent |-> "Object", methods |-> <<>>]

ClassTable ==
    [n \in ClassNames |->
        CASE n = "A" -> [NoClass EXCEPT !.marker = TRUE, !.hasTypes = TRUE,
                            !.types = <<Cls("B"), Cls("Object")>>,
                            !.inject = <<NoInject, Inject(Str("name"))>>,
                            !.methods = <<Hook("begin", {Flow}, <<Cls("B")>>, Report("A.begin", "a")),
                                          Hook("end", {Flow}, <<>>, JUndefined)>>]
          [] n = "B" -> [NoClass EXCEPT !.marker = TRUE,
                            !.methods = <<Hook("parent", {Flow}, <<>>, Report("B.parent", "b"))>>]
          [] n = "D" -> [NoClass EXCEPT !.hasTypes = TRUE, !.types = <<Cls("Object")>>,
                            !.inject = <<Inject(Str("name"))>>]
          [] n = "Foo" -> [NoClass EXCEPT !.marker = TRUE, !.hasTypes = TRUE,
                            !.types = <<Cls("Object")>>, !.inject = <<Inject(Str("Bar"))>>]
          [] n = "Bar" -> [NoClass EXCEPT !.marker = TRUE, !.hasTypes = TRUE,
                            !.types = <<Cls("Object")>>, !.inject = <<Inject(Str("Foo"))>>]
          [] n = "Hub" -> [NoClass EXCEPT !.marker = TRUE,
                            !.methods = <<Hook("link", {Flow}, <<Cls("Spoke")>>, Report("Hub.link", "hub")),
                                          Hook("close", {Stop}, <<>>, Report("Hub.close", "hub"))>>]
          [] n = "Spoke" -> [NoClass EXCEPT !.marker = TRUE, !.hasTypes = TRUE,
                            !.types = <<Cls("Hub")>>, !.inject = <<NoInject>>,
                            !.methods = <<Method("idle"),
                                          Hook("run", {Flow}, <<>>, Report("Spoke.run", "spoke"))>>]
          [] n = "Rim" -> [NoClass EXCEPT !.marker = TRUE, !.hasTypes = TRUE,
                            !.types = <<Cls("Hub")>>, !.inject = <<NoInject>>,
                            !.methods = <<Hook("spin", {Flow, Stop}, <<>>, JStr("spun"))>>]
          [] n = "Opt" -> [NoClass EXCEPT !.marker = TRUE, !.hasTypes = TRUE,
                            !.types = <<Cls("C"), Cls("B")>>,
                            !.inject = <<InjectOpt(Cls("C")), NoInject>>]
          [] n = "Knot" -> [NoClass EXCEPT !.marker = TRUE, !.hasTypes = TRUE,
                            !.types = <<Cls("C"), Cls("Loop")>>,
                            !.inject = <<InjectOpt(Cls("C")), NoInject>>]
          [] n = "Loop" -> [NoClass EXCEPT !.marker = TRUE, !.hasTypes = TRUE,
                            !.types = <<Cls("Knot")>>, !.inject = <<NoInject>>]
          [] n = "Boom" -> [NoClass EXCEPT !.marker = TRUE, !.throws = TRUE]
          [] n = "Lax" -> [NoClass EXCEPT !.marker = TRUE, !.hasTypes = TRUE,
                            !.types = <<Cls("Object"), Cls("C"), Cls("Fuse"), Cls("Back"), Cls("B")>>,
                            !.inject = <<InjectOpt(Str("gender")), InjectOpt(Cls("C")), InjectOpt(Cls("Fuse")),
                                         InjectOpt(Cls("Back")), NoInject>>]
          [] n = "Fuse" -> [NoClass EXCEPT !.marker = TRUE, !.hasTypes = TRUE,
                            !.types = <<Cls("Boom")>>, !.inject = <<NoInject>>]
          [] n = "ParentClass" -> [NoClass EXCEPT !.marker = TRUE,
                            !.methods = <<Hook("say", {Flow}, <<>>, Report("say", "parent"))>>]
          [] n = "SomeClass" -> [NoClass EXCEPT !.marker = TRUE, !.parent = "ParentClass",
                            !.methods = <<Hook("log", {Flow}, <<>>, Report("log", "some")),
                                          Method("extra")>>]
          [] n = "Base" -> [NoClass EXCEPT !.marker = TRUE,
                            !.methods = <<Hook("open", {Flow}, <<>>, Report("Base.open", "base")),
                                          Method("tick"),
                                          Hook("shut", {Stop}, <<>>, Report("Base.shut", "base"))>>]
          [] n = "Mid" -> [NoClass EXCEPT !.marker = TRUE, !.parent = "Base",
                            !.methods = <<Hook("tick", {Flow}, <<>>, Report("Mid.tick", "mid")),
                                          Method("open"),
                                          Hook("sync", {Flow, Stop}, <<>>, Report("Mid.sync", "mid"))>>]
          [] n = "Leaf" -> [NoClass EXCEPT !.marker = TRUE, !.parent = "Mid",
                            !.methods = <<Hook("first", {Flow}, <<>>, Report("Leaf.first", "leaf")),
                                          Hook("shut", {Flow}, <<>>, Report("Leaf.shut", "leaf"))>>]
          [] n = "Gate" -> [NoClass EXCEPT !.marker = TRUE,
                            !.methods = <<Hook("open", {Flow}, <<>>, Report("Gate.open", "gate")),
                                          Hook("pass", {Flow}, <<Cls("B")>>, Report("Gate.pass", "gate")),
                                          Hook("shut", {Stop}, <<>>, Report("Gate.shut", "gate"))>>]
          [] n = "Ping" -> [NoClass EXCEPT !.marker = TRUE,
                            !.methods = <<Hook("hit", {Flow}, <<Cls("Pong")>>, Report("Ping.hit", "ping"))>>]
          [] n = "Pong" -> [NoClass EXCEPT !.marker = TRUE,
                            !.methods = <<Hook("hit", {Flow}, <<Cls("Ping")>>, Report("Pong.hit", "pong"))>>]
          [] n = "Twice" -> [NoClass EXCEPT !.marker = TRUE, !.hasTypes = TRUE,
                            !.types = <<Cls("C"), Cls("C")>>,
                            !.inject = <<InjectOpt(Cls("C")), NoInject>>]
          [] n = "Chip" -> [NoClass EXCEPT !.marker = TRUE, !.hasTypes = TRUE,
                            !.types = <<Cls("C"), Cls("D")>>,
                            !.inject = <<InjectOpt(Cls("C")), NoInject>>]
          [] n = "Mixed" -> [NoClass EXCEPT !.marker = TRUE,
                            !.methods = <<Hook("data", {Flow}, <<>>, Report("Mixed.data", "mixed")),
                                          Hook("none", {Flow}, <<>>, JUndefined),
                                          Hook("text", {Flow}, <<>>, JStr("done")),
                                          Hook("count", {Flow}, <<>>, JNum(7)),
                                          Hook("self", {Flow}, <<>>, JInst("Mixed")),
                                          Hook("more", {Flow}, <<>>, Report("Mixed.more", "mixed"))>>]
          [] n = "Trip" -> [NoClass EXCEPT !.marker = TRUE,
                            !.methods = <<Hook("warm", {Flow}, <<>>, Report("Trip.warm", "trip")),
                                          Hook("fall", {Flow}, <<>>, Throws("fell")),
                                          Hook("after", {Flow}, <<>>, Report("Trip.after", "trip"))>>]
          [] n = "Drop" -> [NoClass EXCEPT !.marker = TRUE,
                            !.methods = <<Hook("sink", {Flow}, <<>>, Rejects("sank")),
                                          Hook("after", {Flow}, <<>>, Report("Drop.after", "drop"))>>]
          [] n = "Back" -> [NoClass EXCEPT !.marker = TRUE, !.hasTypes = TRUE,
                            !.types = <<Cls("Lax")>>, !.inject = <<NoInject>>]
          [] OTHER -> NoClass]

----------------------------------------------------------------------------
(* Metadata accessors *)

\* Reflect.getMetadata(INJECTION_SYMBOL, target): own metadata, else the parent's.
RECURSIVE HasInjectionMeta(_)
HasInjectionMeta(n) ==
    LET c == reflect.classes[n]
    IN  \/ c.marker
        \/ \E i \in 1..Len(c.inject) : c.inject[i].set
        \/ (n # "Object" /\ c.parent # "Object" /\ HasInjectionMeta(c.parent))

\* meta?.[index] of the class-level record; index counts from 1 here.
RECURSIVE InjectAt(_, _)
InjectAt(n, index) ==
    LET c == reflect.classes[n]
    IN  IF c.marker \/ \E i \in 1..Len(c.inject) : c.inject[i].set
        THEN IF index <= Len(c.inject) THEN c.inject[index] ELSE NoInject
        ELSE IF n # "Object" /\ c.parent # "Object" THEN InjectAt(c.parent, index)
        ELSE NoInject

isConstructable(obj) == obj.k = "class"

\* position of the class's own method of that name, 0 when it declares none
OwnMethod(n, name) ==
    IF \E i \in 1..Len(reflect.classes[n].methods) : reflect.classes[n].methods[i].name = name
    THEN CHOOSE i \in 1..Len(reflect.classes[n].methods) : reflect.classes[n].methods[i].name = name
    ELSE 0

\* Object.getOwnPropertyNames(prototype): 'constructor', then the methods as declared
OwnPropertyNames(n) ==
    <<"constructor">> \o [i \in 1..Len(reflect.classes[n].methods) |-> reflect.classes[n].methods[i].name]

RECURSIVE ChainNames(_)
ChainNames_DerivedFirst(n) ==
    IF n = "Object" THEN <<>>
    ELSE OwnPropertyNames(n) \o ChainNames(reflect.classes[n].parent)

\* methods.unshift(...names) for every prototype from the class up to
\* Object.prototype: the names of the base class come first
ChainNames(n) ==
    IF n = "Object" THEN <<>>
    ELSE ChainNames(reflect.classes[n].parent) \o OwnPropertyNames(n)

\* Array.from(new Set(names)): each name once, at its first position
RECURSIVE Unique(_)
Unique(names) ==
    IF Len(names) = 0 THEN <<>>
    ELSE IF names[Len(names)] \in Range(SubSeq(names, 1, Len(names) - 1))
    THEN Unique(SubSeq(names, 1, Len(names) - 1))
    ELSE Append(Unique(SubSeq(names, 1, Len(names) - 1)), names[Len(names)])

NotConstructor(name) == name # "constructor"

listAllMethods(n) == Unique(SelectSeq(ChainNames(n), NotConstructor))

\* The site a decorator is applied at: (target, property, index) with property
\* "" for the class itself and indexed FALSE when index is not a number
ClassSite == [property |-> "", indexed |-> FALSE, index |-> 0]
ParamSite(index) == [property |-> "", indexed |-> TRUE, index |-> index]
MethodSite(name) == [property |-> name, indexed |-> FALSE, index |-> 0]
MethodParamSite(name, index) == [property |-> name, indexed |-> TRUE, index |-> index]

\* `${index}`: the key of the entry a decorator writes into the record
Digits == <<"0", "1", "2", "3">>
Slot(site) == IF site.indexed THEN Digits[site.index + 1] ELSE "undefined"

\* the arguments @Inject(...) was called with
InjectArgs(inj) == IF inj.undefined THEN <<inj.token, Str("undefined")>> ELSE <<inj.token>>

\* the record the decorators of the class definition left at (key, n, property),
\* as pairs <<slot, args>>
StaticMetadata(key, n, property) ==
    IF property = ""
    THEN IF key = INJECTION_SYMBOL
         THEN (IF reflect.classes[n].marker THEN {<<"undefined", <<>>>>} ELSE {})
              \cup { <<Digits[i], InjectArgs(reflect.classes[n].inject[i])>> :
                        i \in { j \in 1..Len(reflect.classes[n].inject) : reflect.classes[n].inject[j].set } }
         ELSE {}
    ELSE IF OwnMethod(n, property) = 0 THEN {}
    ELSE IF key = INJECTION_SYMBOL
         THEN { <<Digits[i], InjectArgs(reflect.classes[n].methods[OwnMethod(n, property)].inject[i])>> :
                   i \in { j \in 1..Len(reflect.classes[n].methods[OwnMethod(n, property)].inject) :
                              reflect.classes[n].methods[OwnMethod(n, property)].inject[j].set } }
         ELSE IF key \in reflect.classes[n].methods[OwnMethod(n, property)].tags THEN {<<"undefined", <<>>>>}
         ELSE {}

\* the entries written at run time at (key, n, property)
DefinedAt(defined, key, n, property) ==
    { d \in defined : d.key = key /\ d.target = n /\ d.property = property }

\* Reflect.getOwnMetadata(key, target, property): the record as pairs
\* <<slot, args>>, empty when there is none
getOwnMetadata(defined, key, n, property) ==
    { <<d.slot, d.args>> : d \in DefinedAt(defined, key, n, property) }
        \cup { m \in StaticMetadata(key, n, property) :
                  \A d \in DefinedAt(defined, key, n, property) : d.slot # m[1] }

\* Reflect.getMetadata(key, target, property): the record of the nearest class
\* of the chain that has one
RECURSIVE getMetadata(_, _, _, _)
getMetadata(defined, key, n, property) ==
    IF n = "Object" THEN {}
    ELSE IF getOwnMetadata(defined, key, n, property) # {} THEN getOwnMetadata(defined, key, n, property)
    ELSE getMetadata(defined, key, reflect.classes[n].parent, property)

\* Reflect.hasMetadata(key, target.prototype, name): on the class or on one it extends
hasMetadata(defined, key, n, name) == getMetadata(defined, key, n, name) # {}

RECURSIVE Tagged(_, _, _, _)
Tagged(defined, key, n, names) ==
    IF Len(names) = 0 THEN <<>>
    ELSE IF hasMetadata(defined, key, n, Head(names))
    THEN <<Head(names)>> \o Tagged(defined, key, n, Tail(names))
    ELSE Tagged(defined, key, n, Tail(names))

\* listDecoratorMethods(key, target) when the run-time metadata is defined
listDecoratorMethodsIn(defined, key, n) == Tagged(defined, key, n, listAllMethods(n))

listDecoratorMethods(key, n) == listDecoratorMethodsIn(reflect.defined, key, n)

\* the nearest declaration of the method that carries a decorator: the owner of
\* the method's 'design:paramtypes'
RECURSIVE DecoratedMethod(_, _)
DecoratedMethod(n, name) ==
    IF n = "Object" THEN Method(name)
    ELSE IF OwnMethod(n, name) # 0 /\ reflect.classes[n].methods[OwnMethod(n, name)].tags # {}
    THEN reflect.classes[n].methods[OwnMethod(n, name)]
    ELSE DecoratedMethod(reflect.classes[n].parent, name)

\* getMetadata(INJECTION_SYMBOL, provider, method)[index]
RECURSIVE MethodInjectAt(_, _, _)
MethodInjectAt(n, name, index) ==
    IF n = "Object" THEN NoInject
    ELSE IF OwnMethod(n, name) # 0 /\ \E i \in 1..Len(reflect.classes[n].methods[OwnMethod(n, name)].inject) :
                                          reflect.classes[n].methods[OwnMethod(n, name)].inject[i].set
    THEN IF index <= Len(reflect.classes[n].methods[OwnMethod(n, name)].inject)
         THEN reflect.classes[n].methods[OwnMethod(n, name)].inject[index]
         ELSE NoInject
    ELSE MethodInjectAt(reflect.classes[n].parent, name, index)

\* value[method]: the nearest implementation
RECURSIVE Implementation(_, _)
Implementation(n, name) ==
    IF n = "Object" THEN Method(name)
    ELSE IF OwnMethod(n, name) # 0 THEN reflect.classes[n].methods[OwnMethod(n, name)]
    ELSE Implementation(reflect.classes[n].parent, name)

getName(token) ==
    IF token.k = "string" THEN token.v
    ELSE IF token.k = "symbol" THEN "symbol"
    ELSE token.v

\* [...stack, token].map(getName).join(' > ')
RECURSIVE JoinNames(_)
JoinNames(s) ==
    IF Len(s) = 0 THEN ""
    ELSE IF Len(s) = 1 THEN getName(s[1])
    ELSE getName(s[1]) \o " > " \o JoinNames(Tail(s))

----------------------------------------------------------------------------
(* Registry *)

\* options.params: absent, or a reference to the array the caller passed;
\* { undefined: false, ...options } copies the reference, not the array
NoParams == [set |-> FALSE, ref |-> ""]
Params(ref) == [set |-> TRUE, ref |-> ref]

DefaultOptions == [undefined |-> FALSE, params |-> NoParams]

\* register(token, provider, options): the new item, appended to the list.
register(items, token, provider, options) ==
    LET item == [token |-> token,
                 provider |-> IF provider = Undefined /\ isConstructable(token) THEN token ELSE provider,
                 value |-> Undefined,
                 options |-> options,
                 dependencies |-> <<>>]
    IN  Append(items, item)

getRegistrationItem_Latest(items, token) ==
    IF \E i \in 1..Len(items) : items[i].token = token
    THEN CHOOSE i \in 1..Len(items) : items[i].token = token /\ \A j \in (i + 1)..Len(items) : items[j].token # token
    ELSE 0

\* getRegistrationItem(token): position of the first item with that token, 0 when none.
getRegistrationItem(items, token) ==
    IF \E i \in 1..Len(items) : items[i].token = token
    THEN CHOOSE i \in 1..Len(items) : items[i].token = token /\ \A j \in 1..(i - 1) : items[j].token # token
    ELSE 0

----------------------------------------------------------------------------
(* Resolver.  The operators thread a record                                *)
(*   M = [items, stack, pt, nid, made, chain]                              *)
(* (registrationItems, resolveTokenStack, the reflected parameter-type     *)
(* arrays, the next object identity, the constructions made, and the       *)
(* tokens whose resolveItem call is active: the call stack of the          *)
(* interpreter, which no code reads) and return                            *)
(*   [M, ok, val, kind, err, chain]: the value returned, or the kind and   *)
(* message of the error thrown with the call chain at the throw.           *)

Return(M, v) == [M |-> M, ok |-> TRUE, val |-> v, kind |-> "", err |-> "", chain |-> <<>>]
Throw(M, kind, msg, token) ==
    [M |-> M, ok |-> FALSE, val |-> Undefined, kind |-> kind, err |-> msg, chain |-> Append(M.chain, token)]

\* a call returns or throws: its frame leaves the call stack
Leave(r, chain) == [r EXCEPT !.M.chain = chain]

\* Reflect.getMetadata('design:paramtypes', provider): the class in the
\* inheritance chain whose array is found, "" when there is none.
RECURSIVE TypesOwner(_, _)
TypesOwner(pt, n) ==
    IF pt[n].set THEN n
    ELSE IF n # "Object" /\ reflect.classes[n].parent # "Object" THEN TypesOwner(pt, reflect.classes[n].parent)
    ELSE ""

\* options.params || getMetadata(PARAMTYPE_METADATA, provider) || []
ParamTypes(M, ix) ==
    IF M.items[ix].options.params.set THEN M.lists[M.items[ix].options.params.ref]
    ELSE IF TypesOwner(M.pt, M.items[ix].provider.v) # ""
    THEN M.pt[TypesOwner(M.pt, M.items[ix].provider.v)].list
    ELSE <<>>

\* paramTypes[index] = tok: written into whichever array paramTypes refers to.
SetParamType(M, ix, index, tok) ==
    IF M.items[ix].options.params.set
    THEN [M EXCEPT !.lists[M.items[ix].options.params.ref][index] = tok]
    ELSE IF TypesOwner(M.pt, M.items[ix].provider.v) # ""
    THEN [M EXCEPT !.pt[TypesOwner(M.pt, M.items[ix].provider.v)].list[index] = tok]
    ELSE M

Pop(s) == IF Len(s) = 0 THEN s ELSE SubSeq(s, 1, Len(s) - 1)

ConstructorError == "constructor failed"

Construct_PerClass(M, ix, params) ==
    IF \E j \in 1..Len(M.items) : M.items[j].provider = M.items[ix].provider /\ M.items[j].value # Undefined
    THEN Return([M EXCEPT !.items[ix].value =
                              M.items[CHOOSE j \in 1..Len(M.items) :
                                          M.items[j].provider = M.items[ix].provider
                                              /\ M.items[j].value # Undefined].value,
                          !.stack = Pop(M.stack)],
                M.items[CHOOSE j \in 1..Len(M.items) :
                            M.items[j].provider = M.items[ix].provider /\ M.items[j].value # Undefined].value)
    ELSE Return([M EXCEPT !.items[ix].value = Obj(M.items[ix].provider.v, M.nid),
                          !.nid = M.nid + 1,
                          !.made = Append(M.made, [token |-> M.items[ix].token,
                                                   cls |-> M.items[ix].provider.v,
                                                   id |-> M.nid, args |-> params]),
                          !.stack = Pop(M.stack)],
                Obj(M.items[ix].provider.v, M.nid))

\* currentItem.value = new currentItem.provider(...params); stack.pop()
Construct(M, ix, params) ==
    IF reflect.classes[M.items[ix].provider.v].throws
    THEN Throw(M, "constructor", ConstructorError, M.items[ix].token)
    ELSE Return([M EXCEPT !.items[ix].value = Obj(M.items[ix].provider.v, M.nid),
                          !.nid = M.nid + 1,
                          !.made = Append(M.made, [token |-> M.items[ix].token,
                                                   cls |-> M.items[ix].provider.v,
                                                   id |-> M.nid, args |-> params]),
                          !.stack = Pop(M.stack)],
                Obj(M.items[ix].provider.v, M.nid))

Cached_Never(item) == FALSE

\* "return available value": the item already holds one
Cached(item) == item.value # Undefined

\* "circular detection": the token is on the resolution stack
Circular(stack, token) == IndexOf(stack, token) # 0

NotInjectable_ParamsGiven(item) == ~HasInjectionMeta(item.provider.v) /\ item.options.params.set

\* "not injectable and not param definitions"
NotInjectable(item) == ~HasInjectionMeta(item.provider.v) /\ ~item.options.params.set

NotInjected_IgnoreOption(item, value) == value = Undefined

\* "fallback": no value, and the options do not allow that
NotInjected(item, value) == ~item.options.undefined /\ value = Undefined

Lookup_Always(M, token) == [M EXCEPT !.items = register(@, token, Undefined, DefaultOptions)]

\* "find registered item", "register item if not exists"
Lookup(M, token) ==
    IF getRegistrationItem(M.items, token) = 0
    THEN [M EXCEPT !.items = register(@, token, Undefined, DefaultOptions)]
    ELSE M

\* "token path", computed before the token is pushed
TokenPath(M, token) == JoinNames(Append(M.stack, token))

\* paramTypes[index] = meta[index][0], when @Inject was given for the position
Override(M, ix, index) ==
    IF InjectAt(M.items[ix].provider.v, index).set
    THEN SetParamType(M, ix, index, InjectAt(M.items[ix].provider.v, index).token)
    ELSE M

RECURSIVE resolveItem(_, _), ResolveParams(_, _, _, _)

Continue_Rethrow(r, inj, ix, index, params) ==
    IF r.ok THEN ResolveParams(r.M, ix, index + 1, Append(params, r.val)) ELSE r

\* after the resolution r of the parameter at index: an optional parameter
\* swallows a failure, any other lets it through
Continue(r, inj, ix, index, params) ==
    IF inj.set /\ inj.undefined
    THEN ResolveParams(r.M, ix, index + 1, Append(params, IF r.ok THEN r.val ELSE Undefined))
    ELSE IF r.ok THEN ResolveParams(r.M, ix, index + 1, Append(params, r.val))
    ELSE r

\* one turn of the loop: record the dependency, resolve it
ResolveParam(M, ix, index, params) ==
    Continue(resolveItem([M EXCEPT !.items[ix].dependencies = Append(@, ParamTypes(M, ix)[index])],
                         ParamTypes(M, ix)[index]),
             InjectAt(M.items[ix].provider.v, index), ix, index, params)

\* the for loop over paramTypes, from position index on
ResolveParams(M, ix, index, params) ==
    IF index > Len(ParamTypes(M, ix)) THEN Return(M, params)
    ELSE ResolveParam(Override(M, ix, index), ix, index, params)

\* the parameters are resolved (or one has thrown): construct, and leave the call
Finish(r, ix, chain) ==
    IF r.ok THEN Leave(Construct(r.M, ix, r.val), chain) ELSE Leave(r, chain)

\* resolveItem once the item is found at position ix
ResolveAt(M, ix, token, chain) ==
    IF Cached(M.items[ix]) THEN Return(M, M.items[ix].value)
    ELSE IF isConstructable(M.items[ix].provider)
    THEN IF Circular(M.stack, token)
         THEN Throw(M, "circular", "Circular dependencies dection at " \o TokenPath(M, token), token)
         ELSE IF NotInjectable(M.items[ix])
         THEN Throw([M EXCEPT !.stack = Append(@, token)], "notInjectable",
                    TokenPath(M, token) \o " is not injectable.", token)
         ELSE Finish(ResolveParams([M EXCEPT !.stack = Append(@, token), !.chain = Append(@, token)],
                                   ix, 1, <<>>),
                     ix, chain)
    ELSE IF NotInjected(M.items[ix], M.items[ix].provider)
         THEN Throw([M EXCEPT !.items[ix].value = M.items[ix].provider], "missing",
                    TokenPath(M, token) \o " wasn't injected", token)
         ELSE Return([M EXCEPT !.items[ix].value = M.items[ix].provider], M.items[ix].provider)

ResolveIn(M, token, chain) == ResolveAt(M, getRegistrationItem(M.items, token), token, chain)

resolveItem(M, token) == ResolveIn(Lookup(M, token), token, M.chain)

\* resolve(token): the stack is reset, then resolveItem
resolve(M, token) == resolveItem([M EXCEPT !.stack = <<>>], token)

----------------------------------------------------------------------------
(* Lifecycle executor.  A session is the ExecutionSession of one execute() *)
(* call together with the activation records of its async functions:       *)
(*   frames : the execute() loop at the bottom, above it one frame per     *)
(*            executeItem call that has not returned; the top frame is     *)
(*            the one whose await is outstanding                           *)
(*   log    : the hooks invoked and settled, in order                      *)
(* A call runs without a break until an await: the operators below run a   *)
(* session from the point where it resumes to its next await and return    *)
(* [M, S], the container machine and the session.  An error leaves every   *)
(* frame (no frame catches) and rejects the promise of execute().          *)

RootFrame == [token |-> Undefined, ix |-> 0, phase |-> "items", i |-> 0, methods |-> <<>>, m |-> 0, p |-> 0,
              params |-> <<>>]
ItemFrame(token, ix) == [RootFrame EXCEPT !.token = token, !.ix = ix, !.phase = "deps"]

NewSession_Reused(earlier, decorator) ==
    [decorator |-> decorator,
     runningItems |-> IF Len(earlier) = 0 THEN <<>> ELSE earlier[Len(earlier)].runningItems,
     output |-> IF Len(earlier) = 0 THEN JObj(<<>>) ELSE earlier[Len(earlier)].output,
     frames |-> <<RootFrame>>, status |-> "pending", err |-> "", log |-> <<>>]

\* const session = { runningItems: [], decorator, input: input || {}, output: {} };
\* earlier: the sessions of the container's earlier execute() calls
NewSession(earlier, decorator) ==
    [decorator |-> decorator, runningItems |-> <<>>, output |-> JObj(<<>>),
     frames |-> <<RootFrame>>, status |-> "pending", err |-> "", log |-> <<>>]

XS(M, S) == [M |-> M, S |-> S]
Top(S) == S.frames[Len(S.frames)]
SetTop(S, f) == [S EXCEPT !.frames[Len(S.frames)] = f]
CurrentItem(M, S) == M.items[Top(S).ix]

Reject(M, S, r) == XS(M, [S EXCEPT !.status = "rejected", !.err = r.err, !.frames = <<>>])

\* session.runningItems.indexOf(token) !== -1
Visited(runningItems, token) == IndexOf(runningItems, token) # 0

DepsDone_Skip(item, i) == TRUE

\* the loop over currentItem.dependencies has passed position i - 1
DepsDone(item, i) == i > Len(item.dependencies)

MethodsDone_Short(methods, m) == m >= Len(methods)

\* the loop over the decorated methods has passed position m - 1
MethodsDone(methods, m) == m > Len(methods)

\* const methods = Container.listDecoratorMethods(session.decorator.key, currentItem.provider)
ListMethods(M, S) ==
    SetTop(S, [Top(S) EXCEPT !.methods = listDecoratorMethods(S.decorator, CurrentItem(M, S).provider.v)])

Hooks(M, S) == Top(S).methods
HookName(M, S) == Hooks(M, S)[Top(S).m]

\* paramTypes[index], or meta[index][0] when @Inject was given for the position
HookParamType(M, S, p) ==
    IF MethodInjectAt(CurrentItem(M, S).provider.v, HookName(M, S), p).set
    THEN MethodInjectAt(CurrentItem(M, S).provider.v, HookName(M, S), p).token
    ELSE DecoratedMethod(CurrentItem(M, S).provider.v, HookName(M, S)).types[p]

Event(ev, M, S) ==
    [ev |-> ev, token |-> Top(S).token, cls |-> CurrentItem(M, S).provider.v,
     method |-> HookName(M, S), id |-> CurrentItem(M, S).value.id, params |-> Top(S).params]

RECURSIVE executeItem(_, _, _), RunDeps(_, _, _), RunMethod(_, _, _), RunParam(_, _, _)

Failed_Swallowed(M, S) ==
    RunMethod(M, [S EXCEPT !.log = Append(@, Event("fail", M, S))], Top(S).m + 1)

\* the hook has thrown, or its promise is rejected: no frame catches, and the
\* promise of execute() is rejected with the error
Failed(M, S) ==
    XS(M, [S EXCEPT !.status = "rejected",
                    !.err = Implementation(CurrentItem(M, S).provider.v, HookName(M, S)).returns.msg,
                    !.frames = <<>>,
                    !.log = Append(@, Event("fail", M, S))])

Invoke_NoAwait(M, S) ==
    RunMethod(M, [S EXCEPT !.log = Append(@, Event("invoke", M, S))], Top(S).m + 1)

\* currentItem.value[method](...params) is called; its promise is awaited
Invoke(M, S) ==
    IF Implementation(CurrentItem(M, S).provider.v, HookName(M, S)).returns.t = "throw"
    THEN Failed(M, [S EXCEPT !.log = Append(@, Event("invoke", M, S))])
    ELSE XS(M, [SetTop(S, [Top(S) EXCEPT !.phase = "hook"]) EXCEPT !.log = Append(@, Event("invoke", M, S))])

ParamResolved_NoExecute(r, S, p) ==
    IF r.ok
    THEN RunParam(r.M, SetTop(S, [Top(S) EXCEPT !.phase = "params", !.p = p, !.params = Append(@, r.val)]),
                  p + 1)
    ELSE Reject(r.M, S, r)

\* the parameter at p is resolved (or has thrown): execute it as an item
ParamResolved(r, S, p) ==
    IF r.ok
    THEN executeItem(r.M, SetTop(S, [Top(S) EXCEPT !.phase = "params", !.p = p, !.params = Append(@, r.val)]),
                     r.token)
    ELSE Reject(r.M, S, r)

\* the loop over the parameters of the hook at Top(S).m, from position p on
RunParam(M, S, p) ==
    IF p > Len(DecoratedMethod(CurrentItem(M, S).provider.v, HookName(M, S)).types)
    THEN Invoke(M, S)
    ELSE ParamResolved([token |-> HookParamType(M, S, p)] @@
                       resolveItem([M EXCEPT !.items[Top(S).ix].dependencies = Append(@, HookParamType(M, S, p))],
                                   HookParamType(M, S, p)),
                       S, p)

\* the loop over the decorated methods, from position m on; past the last one
\* executeItem returns
RunMethod(M, S, m) ==
    IF MethodsDone(Hooks(M, S), m) THEN XS(M, [S EXCEPT !.frames = Pop(@)])
    ELSE RunParam(M, SetTop(S, [Top(S) EXCEPT !.m = m, !.params = <<>>]), 1)

\* the loop over currentItem.dependencies, from position i on
RunDeps(M, S, i) ==
    IF DepsDone(CurrentItem(M, S), i) THEN RunMethod(M, ListMethods(M, S), 1)
    ELSE executeItem(M, SetTop(S, [Top(S) EXCEPT !.phase = "deps", !.i = i]),
                     CurrentItem(M, S).dependencies[i])

\* "start run": an item met again in the session is left alone
StartRun(M, S, token, ix) ==
    IF Visited(S.runningItems, token) THEN XS(M, S)
    ELSE RunDeps(M, [S EXCEPT !.runningItems = Append(@, token), !.frames = Append(@, ItemFrame(token, ix))], 1)

Resolved_(r, S, token, ix) == IF r.ok THEN StartRun(r.M, S, token, ix) ELSE Reject(r.M, S, r)

\* executeItem once the item is looked up: ix is its position, 0 when there is none
ExecuteAt(M, S, token, ix) ==
    IF ix = 0 THEN XS(M, S)
    ELSE IF ~isConstructable(M.items[ix].provider) THEN XS(M, S)
    ELSE IF M.items[ix].value = Undefined THEN Resolved_(resolve(M, token), S, token, ix)
    ELSE StartRun(M, S, token, ix)

executeItem(M, S, token) == ExecuteAt(M, S, token, getRegistrationItem(M.items, token))

RunItems_Again(M, S, i) ==
    IF i > Len(M.items) THEN executeItem(M, SetTop(S, [Top(S) EXCEPT !.i = 1]), M.items[1].token)
    ELSE executeItem(M, SetTop(S, [Top(S) EXCEPT !.i = i]), M.items[i].token)

RunItems_Backwards(M, S, i) ==
    IF i > Len(M.items) THEN XS(M, [S EXCEPT !.status = "fulfilled", !.frames = <<>>])
    ELSE executeItem(M, SetTop(S, [Top(S) EXCEPT !.i = i]), M.items[Len(M.items) + 1 - i].token)

\* the loop of execute() over registrationItems, from position i on; past the
\* last one execute returns session.output
RunItems(M, S, i) ==
    IF i > Len(M.items) THEN XS(M, [S EXCEPT !.status = "fulfilled", !.frames = <<>>])
    ELSE executeItem(M, SetTop(S, [Top(S) EXCEPT !.i = i]), M.items[i].token)

Settle_Replace(M, S) ==
    RunMethod(M, [S EXCEPT !.output = Implementation(CurrentItem(M, S).provider.v, HookName(M, S)).returns,
                           !.log = Append(@, Event("settle", M, S))],
              Top(S).m + 1)

\* the awaited hook has settled: merge(session.output, <its value>), next method
Settle(M, S) ==
    IF Implementation(CurrentItem(M, S).provider.v, HookName(M, S)).returns.t = "reject"
    THEN Failed(M, S)
    ELSE RunMethod(M, [S EXCEPT !.output = merge(@, <<Implementation(CurrentItem(M, S).provider.v,
                                                                      HookName(M, S)).returns>>),
                                !.log = Append(@, Event("settle", M, S))],
                   Top(S).m + 1)

\* the session resumes after the await of its top frame
Resume(M, S) ==
    CASE Top(S).phase = "items" -> RunItems(M, S, Top(S).i + 1)
      [] Top(S).phase = "deps" -> RunDeps(M, S, Top(S).i + 1)
      [] Top(S).phase = "params" -> RunParam(M, S, Top(S).p + 1)
      [] Top(S).phase = "hook" -> Settle(M, S)

\* execute(decorator): a new session, run to its first await
execute(M, earlier, decorator) == RunItems(M, NewSession(earlier, decorator), 1)

----------------------------------------------------------------------------
(* State *)

Containers == 1..NumContainers

Machine(c) == [items |-> containers[c].registrationItems,
               stack |-> containers[c].resolveTokenStack,
               pt |-> paramtypes, lists |-> paramLists, nid |-> nextId, made |-> constructed[c], chain |-> <<>>]

\* the state after an operation on container c left the machine in M
Store(c, M) ==
    /\ containers' = [containers EXCEPT ![c] = [registrationItems |-> M.items,
                                                resolveTokenStack |-> M.stack]]
    /\ paramtypes' = M.pt
    /\ paramLists' = M.lists
    /\ nextId' = M.nid
    /\ constructed' = [constructed EXCEPT ![c] = M.made]

\* last: the call, its outcome, and whether the item held a value when it was made
NoCall == [op |-> "none", c |-> 0, token |-> Undefined, ok |-> TRUE, val |-> Undefined,
           kind |-> "", err |-> "", chain |-> <<>>, hit |-> FALSE]

ItemOf(c, token) == getRegistrationItem(containers[c].registrationItems, token)

HasValue(c, token) ==
    ItemOf(c, token) # 0 /\ containers[c].registrationItems[ItemOf(c, token)].value # Undefined

NoMerge == [target |-> JUndefined, sources |-> <<>>, result |-> JUndefined, done |-> FALSE]

\* the arrays the callers hold and pass as options.params
CallerLists == [none |-> <<>>, wired |-> <<Cls("B"), Str("nick")>>]

InitContainers ==
    /\ containers = [c \in Containers |-> [registrationItems |-> <<>>, resolveTokenStack |-> <<>>]]
    /\ paramtypes = [n \in ClassNames |-> [set |-> ClassTable[n].hasTypes, list |-> ClassTable[n].types]]
    /\ paramLists = CallerLists
    /\ nextId = 1
    /\ constructed = [c \in Containers |-> <<>>]
    /\ last = NoCall
    /\ nregs = [c \in Containers |-> 0]
    /\ ncalls = [c \in Containers |-> 0]
    /\ sessions = [c \in Containers |-> <<>>]

\* the properties of objects: <<object id, property>> -> value; a property
\* never written is undefined
Field(heap, obj, prop) ==
    IF obj.k = "object" /\ <<obj.id, prop>> \in DOMAIN heap THEN heap[<<obj.id, prop>>] ELSE Undefined

Write(heap, obj, prop, newVal) ==
    [x \in (DOMAIN heap) \cup {<<obj.id, prop>>} |-> IF x = <<obj.id, prop>> THEN newVal ELSE heap[x]]

\* no decorator applied at run time, no static call made
NoStatic == [fn |-> "none", key |-> "", target |-> "Object", property |-> "", result |-> <<>>]
NoReflect == [classes |-> ClassTable, defined |-> {}, decorators |-> <<>>, call |-> NoStatic]

NoAccess == [op |-> "none", p |-> 0, prop |-> "", ok |-> TRUE, val |-> Undefined, target |-> Undefined]
NoProxies == [heap |-> <<>>, proxies |-> <<>>, got |-> NoAccess, nwrites |-> 0]

Init == InitContainers /\ mg = NoMerge /\ px = NoProxies /\ reflect = NoReflect

WithUndefined == [undefined |-> TRUE, params |-> NoParams]
WithParams(ref) == [undefined |-> FALSE, params |-> Params(ref)]

\* container.register(token, provider, options)
Register(c, token, provider, options) ==
    /\ nregs[c] < MaxRegs
    /\ containers' = [containers EXCEPT ![c].registrationItems = register(@, token, provider, options)]
    /\ nregs' = [nregs EXCEPT ![c] = @ + 1]
    /\ last' = [NoCall EXCEPT !.op = "register", !.c = c, !.token = token]
    /\ UNCHANGED <<paramtypes, paramLists, nextId, constructed, ncalls, sessions, mg, px, reflect>>

\* container.resolve(token)
Resolved(c, token, r) ==
    /\ Store(c, r.M)
    /\ last' = [op |-> "resolve", c |-> c, token |-> token, ok |-> r.ok, val |-> r.val,
                kind |-> r.kind, err |-> r.err, chain |-> r.chain, hit |-> HasValue(c, token)]

Resolve(c, token) ==
    /\ ncalls[c] < MaxCalls
    /\ Resolved(c, token, resolve(Machine(c), token))
    /\ ncalls' = [ncalls EXCEPT ![c] = @ + 1]
    /\ UNCHANGED <<nregs, sessions, mg, px, reflect>>

\* the session at position s of container c was run to its next await
Executed(c, s, x) ==
    /\ Store(c, x.M)
    /\ sessions' = [sessions EXCEPT ![c] = IF s > Len(@) THEN Append(@, x.S) ELSE [@ EXCEPT ![s] = x.S]]
    /\ last' = [NoCall EXCEPT !.op = "execute", !.c = c]

Settled(c) == \A s \in 1..Len(sessions[c]) : sessions[c][s].status # "pending"

\* container.execute(decorator), up to its first await; awaited: the caller
\* has awaited the earlier calls
Execute(c, decorator, awaited) ==
    /\ ncalls[c] < MaxCalls
    /\ awaited => Settled(c)
    /\ Executed(c, Len(sessions[c]) + 1, execute(Machine(c), sessions[c], decorator))
    /\ ncalls' = [ncalls EXCEPT ![c] = @ + 1]
    /\ UNCHANGED <<nregs, mg, px, reflect>>

\* a pending execute() call goes on: the promise it awaits has settled
Step(c, s) ==
    /\ s \in 1..Len(sessions[c])
    /\ sessions[c][s].status = "pending"
    /\ Executed(c, s, Resume(Machine(c), sessions[c][s]))
    /\ UNCHANGED <<nregs, ncalls, mg, px, reflect>>

\* Registering values and classes and resolving them: what the caller
\* registers and asks for
Registrations ==
    { <<Str("name"), Str("foo"), DefaultOptions>>,
      <<Str("age"), Undefined, WithUndefined>>,
      <<Cls("A"), Undefined, DefaultOptions>>,
      <<Cls("C"), Undefined, WithParams("none")>> }

Requests == { Str("age"), Cls("A"), Cls("C"), Cls("D") }

Next ==
    \/ \E reg \in Registrations : Register(1, reg[1], reg[2], reg[3])
    \/ \E token \in Requests : Resolve(1, token)

Spec == Init /\ [][Next]_vars

\* Classes that need each other: what the caller registers and asks for
CycleRegistrations ==
    { <<Str("Foo"), Cls("Foo"), DefaultOptions>>,
      <<Str("Bar"), Cls("Bar"), DefaultOptions>> }

CycleRequests == { Cls("Bar"), Str("Foo"), Cls("Knot"), Cls("Loop"), Cls("Opt") }

NextCycle ==
    \/ \E reg \in CycleRegistrations : Register(1, reg[1], reg[2], reg[3])
    \/ \E token \in CycleRequests : Resolve(1, token)

SpecCycle == Init /\ [][NextCycle]_vars

\* Classes with optional constructor parameters: what the caller registers and
\* asks for
OptRegistrations ==
    { <<Str("gender"), Str("f"), DefaultOptions>>,
      <<Cls("B"), Undefined, DefaultOptions>> }

OptRequests == { Cls("Lax"), Cls("Opt"), Cls("Knot"), Cls("Back"), Cls("Fuse"), Cls("Twice"),
                 Cls("Chip") }

NextOpt ==
    \/ \E reg \in OptRegistrations : Register(1, reg[1], reg[2], reg[3])
    \/ \E token \in OptRequests : Resolve(1, token)

SpecOpt == Init /\ [][NextOpt]_vars

\* Static calls that list the methods of a class
ListAllMethods(target) ==
    /\ reflect' = [reflect EXCEPT !.call = [fn |-> "listAllMethods", key |-> "", target |-> target, property |-> "",
                                            result |-> listAllMethods(target)]]
    /\ UNCHANGED <<containers, paramtypes, paramLists, nextId, constructed, last, nregs, ncalls, sessions, mg, px>>

ListDecoratorMethods(key, target) ==
    /\ reflect' = [reflect EXCEPT !.call = [fn |-> "listDecoratorMethods", key |-> key, target |-> target, property |-> "",
                                            result |-> listDecoratorMethods(key, target)]]
    /\ UNCHANGED <<containers, paramtypes, paramLists, nextId, constructed, last, nregs, ncalls, sessions, mg, px>>

\* Symbol(): a symbol that no earlier call returned; n counts the calls
FreshSymbol_Same(n) == Flow

FreshSymbol(n) == <<Flow, Stop, "Get", "Post">>[n]

\* the decorators created without a key among those created so far
Keyless(decorators) == { i \in 1..Len(decorators) : decorators[i].given = "" }

\* createDecorator(key): if (!key) key = Symbol(); de.key = key
createDecorator(decorators, given) ==
    [given |-> given,
     key |-> IF given = "" THEN FreshSymbol(Cardinality(Keyless(decorators)) + 1) ELSE given]

\* the decorator is applied: meta = getOwnMetadata(key, target, property) || {};
\* meta[`${index}`] = args; defineMetadata(key, meta, target, property)
attach(defined, key, args, n, site) ==
    { d \in defined : ~(d.key = key /\ d.target = n /\ d.property = site.property /\ d.slot = Slot(site)) }
        \cup { [key |-> key, target |-> n, property |-> site.property, slot |-> Slot(site), args |-> args] }

CreateDecorator(given) ==
    /\ Len(reflect.decorators) < MaxDecorators
    /\ reflect' = [reflect EXCEPT !.decorators = Append(@, createDecorator(@, given)),
                                  !.call = [NoStatic EXCEPT !.fn = "createDecorator", !.key = given]]
    /\ UNCHANGED <<containers, paramtypes, paramLists, nextId, constructed, last, nregs, ncalls, sessions, mg, px>>

Attach(d, args, n, site) ==
    /\ d \in 1..Len(reflect.decorators)
    /\ Cardinality(reflect.defined) < MaxAttach
    /\ reflect' = [reflect EXCEPT !.defined = attach(@, reflect.decorators[d].key, args, n, site),
                                  !.call = [NoStatic EXCEPT !.fn = "attach", !.key = reflect.decorators[d].key,
                                                            !.target = n, !.property = site.property]]
    /\ UNCHANGED <<containers, paramtypes, paramLists, nextId, constructed, last, nregs, ncalls, sessions, mg, px>>

\* Container.getMetadata(key, target, property): the slots of the record found
GetMetadata(key, n, property) ==
    /\ reflect' = [reflect EXCEPT !.call = [fn |-> "getMetadata", key |-> key, target |-> n,
                                            property |-> property,
                                            result |-> getMetadata(reflect.defined, key, n, property)]]
    /\ UNCHANGED <<containers, paramtypes, paramLists, nextId, constructed, last, nregs, ncalls, sessions, mg, px>>

\* Decorators made and applied at run time: the keys given (none: ""), the
\* arguments, the classes and the sites
GivenKeys == {"", "DEFAULT_METADATA"}
AttachArgs == { <<Str("a")>> }
AttachTargets == {"SomeClass"}
AttachSites == { ClassSite, ParamSite(0), MethodSite("say"), MethodParamSite("say", 0) }

NextMeta ==
    \/ \E given \in GivenKeys : CreateDecorator(given)
    \/ \E d \in 1..Len(reflect.decorators) : \E args \in AttachArgs : \E n \in AttachTargets :
          \E site \in AttachSites : Attach(d, args, n, site)
    \/ \E d \in 1..Len(reflect.decorators) : \E property \in {"", "say"} :
          GetMetadata(reflect.decorators[d].key, "SomeClass", property)
    \/ \E d \in 1..Len(reflect.decorators) : ListDecoratorMethods(reflect.decorators[d].key, "SomeClass")

SpecMeta == Init /\ [][NextMeta]_vars

\* Classes that extend classes: what is registered, listed and executed
ListRegistrations ==
    { <<Cls("Leaf"), Undefined, DefaultOptions>>,
      <<Cls("SomeClass"), Undefined, DefaultOptions>> }

ListTargets == {"SomeClass", "Leaf", "C"}

NextList ==
    \/ \E reg \in ListRegistrations : Register(1, reg[1], reg[2], reg[3])
    \/ Execute(1, Flow, TRUE)
    \/ \E s \in 1..Len(sessions[1]) : Step(1, s)
    \/ \E target \in ListTargets : ListAllMethods(target)
    \/ \E target \in ListTargets : \E key \in Decorators : ListDecoratorMethods(key, target)

SpecList == Init /\ [][NextList]_vars

\* Lifecycle passes, each awaited by the caller: what is registered, asked
\* for and executed
ExecRegistrations ==
    { <<Str("name"), Str("foo"), DefaultOptions>>,
      <<Cls("A"), Undefined, DefaultOptions>>,
      <<Cls("Hub"), Undefined, DefaultOptions>>,
      <<Cls("Spoke"), Undefined, DefaultOptions>>,
      <<Cls("Rim"), Undefined, DefaultOptions>> }

ExecRequests == { Cls("Spoke") }

NextExec ==
    \/ \E reg \in ExecRegistrations : Register(1, reg[1], reg[2], reg[3])
    \/ \E token \in ExecRequests : Resolve(1, token)
    \/ \E decorator \in Decorators : Execute(1, decorator, TRUE)
    \/ \E s \in 1..MaxCalls : Step(1, s)

SpecExec == Init /\ [][NextExec]_vars

\* Hooks that take items as parameters, two of them each other
MutualRegistrations ==
    { <<Str("name"), Str("foo"), DefaultOptions>>,
      <<Cls("A"), Undefined, DefaultOptions>>,
      <<Cls("Ping"), Undefined, DefaultOptions>>,
      <<Cls("Pong"), Undefined, DefaultOptions>> }

NextMutual ==
    \/ \E reg \in MutualRegistrations : Register(1, reg[1], reg[2], reg[3])
    \/ Execute(1, Flow, TRUE)
    \/ \E s \in 1..Len(sessions[1]) : Step(1, s)

SpecMutual == Init /\ [][NextMutual]_vars

\* a pending execute() call has gone on: one of its awaited promises settled
StepTaken ==
    \E s \in 1..Len(sessions[1]) :
        sessions[1][s].status = "pending" /\ sessions'[1][s] # sessions[1][s]

\* The same calls, where every promise a pass awaits settles.  This is
\* WF_vars(\E s : Step(1, s)) written out, with the guard of Step (a call is
\* pending) in the place of ENABLED
SpecMutualLive ==
    SpecMutual /\ ([]<>Settled(1) \/ []<><<StepTaken>>_vars)

\* Hooks that return plain objects and other values
OutputRegistrations ==
    { <<Cls("Mixed"), Undefined, DefaultOptions>>,
      <<Cls("B"), Undefined, DefaultOptions>> }

NextOutput ==
    \/ \E reg \in OutputRegistrations : Register(1, reg[1], reg[2], reg[3])
    \/ Execute(1, Flow, TRUE)
    \/ \E s \in 1..Len(sessions[1]) : Step(1, s)

SpecOutput == Init /\ [][NextOutput]_vars

\* Constructors and hooks that fail
FailRegistrations ==
    { <<Cls("Trip"), Undefined, DefaultOptions>>,
      <<Cls("Drop"), Undefined, DefaultOptions>>,
      <<Cls("Fuse"), Undefined, DefaultOptions>> }

FailRequests == { Cls("Fuse"), Cls("Trip") }

NextFail ==
    \/ \E reg \in FailRegistrations : Register(1, reg[1], reg[2], reg[3])
    \/ \E token \in FailRequests : Resolve(1, token)
    \/ Execute(1, Flow, TRUE)
    \/ \E s \in 1..Len(sessions[1]) : Step(1, s)

SpecFail == Init /\ [][NextFail]_vars

\* Items with hooks, some of them needed by others: what the caller registers
OrderRegistrations ==
    { <<Cls("Rim"), Undefined, DefaultOptions>>,
      <<Cls("B"), Undefined, DefaultOptions>>,
      <<Cls("Hub"), Undefined, DefaultOptions>> }

NextOrder ==
    \/ \E reg \in OrderRegistrations : Register(1, reg[1], reg[2], reg[3])
    \/ Execute(1, Flow, TRUE)
    \/ \E s \in 1..Len(sessions[1]) : Step(1, s)

SpecOrder == Init /\ [][NextOrder]_vars

\* One token registered several times, with different providers
DupRegistrations ==
    { <<Str("svc"), Cls("B"), DefaultOptions>>,
      <<Str("svc"), Cls("Rim"), DefaultOptions>>,
      <<Str("name"), Str("foo"), DefaultOptions>>,
      <<Str("name"), Str("bar"), DefaultOptions>> }

DupRequests == {Str("svc"), Str("name"), Cls("B")}

NextDup ==
    \/ \E reg \in DupRegistrations : Register(1, reg[1], reg[2], reg[3])
    \/ \E token \in DupRequests : Resolve(1, token)
    \/ Execute(1, Flow, TRUE)
    \/ \E s \in 1..Len(sessions[1]) : Step(1, s)

SpecDup == Init /\ [][NextDup]_vars

\* A registry that is filled first and then run several times, with either
\* lifecycle decorator
AgainRegistrations ==
    { <<Cls("Gate"), Undefined, DefaultOptions>>,
      <<Cls("Hub"), Undefined, DefaultOptions>>,
      <<Cls("A"), Undefined, DefaultOptions>>,
      <<Str("name"), Str("foo"), DefaultOptions>> }

NextAgain ==
    \/ \E reg \in AgainRegistrations : Len(sessions[1]) = 0 /\ Register(1, reg[1], reg[2], reg[3])
    \/ \E decorator \in Decorators : Execute(1, decorator, TRUE)
    \/ \E s \in 1..Len(sessions[1]) : Step(1, s)

SpecAgain == Init /\ [][NextAgain]_vars

\* A registry that is filled first and then run by execute calls that are
\* not awaited: a call may start while the hooks of an earlier one are pending
OverlapRegistrations ==
    { <<Cls("Hub"), Undefined, DefaultOptions>>,
      <<Cls("A"), Undefined, DefaultOptions>>,
      <<Str("name"), Str("foo"), DefaultOptions>> }

NextOverlap ==
    \/ \E reg \in OverlapRegistrations : Len(sessions[1]) = 0 /\ Register(1, reg[1], reg[2], reg[3])
    \/ Execute(1, Flow, FALSE)
    \/ \E s \in 1..Len(sessions[1]) : Step(1, s)

SpecOverlap == Init /\ [][NextOverlap]_vars

\* Calls of merge: the values a key may hold, the targets and the sources
MergeValues ==
    { JNum(1), JNum(2), JArr(<<JNum(1)>>), JArr(<<JNum(2)>>),
      JObj([d |-> JNum(1)]), JObj([d |-> JArr(<<JNum(2)>>)]) }

MergeTargets ==
    { JObj(<<>>), JNum(1), JInst("A") }
        \cup { JObj([a |-> v]) : v \in MergeValues }
        \cup { JObj([a |-> v, b |-> JNum(7)]) : v \in MergeValues }

MergeSources ==
    { JObj(<<>>), JUndefined, JInst("A"), JObj([b |-> JArr(<<JNum(9)>>)]) }
        \cup { JObj([a |-> v]) : v \in MergeValues }

RECURSIVE SeqsUpTo(_, _)
SeqsUpTo(S, n) ==
    IF n = 0 THEN {<<>>}
    ELSE SeqsUpTo(S, n - 1) \cup { Append(q, x) : q \in { r \in SeqsUpTo(S, n - 1) : Len(r) = n - 1 }, x \in S }

\* the call made by the test 'should merge'
TestTarget == JObj([a |-> JNum(1), c |-> JObj([d |-> JNum(1)])])
TestSources ==
    << JObj([a |-> JNum(2), b |-> JArr(<<JNum(1), JNum(2)>>)]),
       JObj([b |-> JArr(<<JNum(3)>>)]),
       JObj([c |-> JObj([d |-> JNum(2)])]) >>

InitMerge ==
    /\ InitContainers
    /\ px = NoProxies
    /\ reflect = NoReflect
    /\ \/ \E target \in MergeTargets : \E sources \in SeqsUpTo(MergeSources, MaxSources) :
              mg = [NoMerge EXCEPT !.target = target, !.sources = sources]
       \/ mg = [NoMerge EXCEPT !.target = TestTarget, !.sources = TestSources]

\* merge(target, ...sources): the target as the call leaves and returns it
Merge ==
    /\ ~mg.done
    /\ mg' = [mg EXCEPT !.result = merge(mg.target, mg.sources), !.done = TRUE]
    /\ UNCHANGED <<containers, paramtypes, paramLists, nextId, constructed, last, nregs, ncalls, sessions, px, reflect>>

NextMerge == Merge

SpecMerge == InitMerge /\ [][NextMerge]_vars

\* Several containers side by side: what is registered, asked for and executed
TwoRegistrations == { <<Cls("Spoke"), Undefined, DefaultOptions>>, <<Cls("A"), Undefined, WithParams("wired")>> }

TwoRequests == { Cls("Spoke"), Cls("A") }

RECURSIVE Total(_, _)
Total(f, n) == IF n = 0 THEN 0 ELSE f[n] + Total(f, n - 1)

NextTwo ==
    \/ /\ Total(nregs, NumContainers) + Total(ncalls, NumContainers) < MaxOps
       /\ \E c \in Containers :
              \/ \E reg \in TwoRegistrations : Register(c, reg[1], reg[2], reg[3])
              \/ \E token \in TwoRequests : Resolve(c, token)
              \/ Execute(c, Flow, TRUE)
    \/ \E c \in Containers : \E s \in 1..Len(sessions[c]) : Step(c, s)

SpecTwo == Init /\ [][NextTwo]_vars

\* The functions passed as proxyFn: (v) => v and (v) => v.config
ProxyFns == {"self", "config"}

proxyFn(heap, fn, value) == IF fn = "self" THEN value ELSE Field(heap, value, "config")

ProxyTarget_AtCallTime(heap, proxy) == proxyFn(proxy.made, proxy.fn, proxy.value)

\* proxyFn(value), evaluated by a trap when the property is accessed
ProxyTarget(heap, proxy) == proxyFn(heap, proxy.fn, proxy.value)

\* container.resolve(token, proxyFn): the Proxy closes over the resolved value
\* and over proxyFn; made: the properties of the objects when it was made
ResolveProxy(c, token, fn) ==
    /\ ncalls[c] < MaxCalls
    /\ Resolved(c, token, resolve(Machine(c), token))
    /\ ncalls' = [ncalls EXCEPT ![c] = @ + 1]
    /\ px' = IF resolve(Machine(c), token).ok
             THEN [px EXCEPT !.got = NoAccess,
                             !.proxies = Append(@, [c |-> c, token |-> token, fn |-> fn,
                                                    value |-> resolve(Machine(c), token).val,
                                                    made |-> px.heap])]
             ELSE [px EXCEPT !.got = NoAccess]
    /\ UNCHANGED <<nregs, sessions, mg, reflect>>

\* the get trap: return proxyFn(value)[prop]; reading a property of undefined throws
ProxyGet(p, prop) ==
    /\ p \in 1..Len(px.proxies)
    /\ px' = [px EXCEPT !.got =
                 [op |-> "get", p |-> p, prop |-> prop,
                  ok |-> ProxyTarget(px.heap, px.proxies[p]).k = "object",
                  val |-> Field(px.heap, ProxyTarget(px.heap, px.proxies[p]), prop),
                  target |-> ProxyTarget(px.heap, px.proxies[p])]]
    /\ UNCHANGED <<containers, paramtypes, paramLists, nextId, constructed, last, nregs, ncalls, sessions, mg, reflect>>

\* the set trap: return (proxyFn(value)[prop] = newVal); writing a property
\* of undefined throws
ProxySet(p, prop, newVal) ==
    /\ p \in 1..Len(px.proxies)
    /\ px.nwrites < MaxWrites
    /\ px' = IF ProxyTarget(px.heap, px.proxies[p]).k = "object"
             THEN [px EXCEPT !.heap = Write(@, ProxyTarget(px.heap, px.proxies[p]), prop, newVal),
                             !.nwrites = @ + 1,
                             !.got = [op |-> "set", p |-> p, prop |-> prop, ok |-> TRUE, val |-> newVal,
                                      target |-> ProxyTarget(px.heap, px.proxies[p])]]
             ELSE [px EXCEPT !.nwrites = @ + 1,
                             !.got = [op |-> "set", p |-> p, prop |-> prop, ok |-> FALSE,
                                      val |-> Undefined, target |-> Undefined]]
    /\ UNCHANGED <<containers, paramtypes, paramLists, nextId, constructed, last, nregs, ncalls, sessions, mg, reflect>>

\* a holder of the singleton itself assigns one of its properties
DirectSet(c, j, prop, newVal) ==
    /\ j \in 1..Len(constructed[c])
    /\ px.nwrites < MaxWrites
    /\ px' = [px EXCEPT !.heap = Write(@, Obj(constructed[c][j].cls, constructed[c][j].id), prop, newVal),
                        !.nwrites = @ + 1,
                        !.got = [NoAccess EXCEPT !.op = "direct", !.prop = prop, !.val = newVal,
                                                 !.target = Obj(constructed[c][j].cls, constructed[c][j].id)]]
    /\ UNCHANGED <<containers, paramtypes, paramLists, nextId, constructed, last, nregs, ncalls, sessions, mg, reflect>>

\* Proxies: the tokens resolved, the properties accessed, the values written
ProxyRequests == { Cls("B"), Cls("Hub") }

PropValues(prop) ==
    IF prop = "config"
    THEN { Obj(constructed[1][j].cls, constructed[1][j].id) : j \in 1..Len(constructed[1]) }
    ELSE { Str("80") }

PropNames == {"config", "port"}

NextProxy ==
    \/ \E token \in ProxyRequests : \E fn \in ProxyFns : ResolveProxy(1, token, fn)
    \/ \E p \in 1..Len(px.proxies) : \E prop \in PropNames : ProxyGet(p, prop)
    \/ \E p \in 1..Len(px.proxies) : \E prop \in PropNames : \E newVal \in PropValues(prop) :
          ProxySet(p, prop, newVal)
    \/ \E j \in 1..Len(constructed[1]) : \E prop \in PropNames : \E newVal \in PropValues(prop) :
          DirectSet(1, j, prop, newVal)

SpecProxy == Init /\ [][NextProxy]_vars

----------------------------------------------------------------------------
(* Properties of registration and resolution *)

Items(c) == containers[c].registrationItems

\* the tokens an item's construction resolves through parameters that are not optional
Requires(c, token) ==
    LET ix == ItemOf(c, token)
        provider == IF ix # 0 THEN Items(c)[ix].provider
                    ELSE IF isConstructable(token) THEN token ELSE Undefined
        types == IF ix # 0 /\ Items(c)[ix].options.params.set THEN paramLists[Items(c)[ix].options.params.ref]
                 ELSE IF isConstructable(provider) /\ TypesOwner(paramtypes, provider.v) # ""
                      THEN paramtypes[TypesOwner(paramtypes, provider.v)].list
                 ELSE <<>>
    IN  IF ~isConstructable(provider) THEN {}
        ELSE { (IF InjectAt(provider.v, i).set THEN InjectAt(provider.v, i).token ELSE types[i]) :
                  i \in { j \in 1..Len(types) : ~InjectAt(provider.v, j).undefined } }

AllTokens == { Cls(n) : n \in ClassNames } \cup { Str(x) : x \in {"name", "age", "gender", "Foo", "Bar"} }

RECURSIVE Reach(_, _, _)
Reach(c, from, n) ==
    IF n = 0 THEN from
    ELSE Reach(c, from \cup UNION { Requires(c, t) : t \in from }, n - 1)

\* the construction of token requires, directly or transitively, token again
OnCycle(c, token) == token \in Reach(c, Requires(c, token), Cardinality(AllTokens))

C2_CircularMessage ==
    \A c \in Containers :
        (last.op = "resolve" /\ last.c = c /\ OnCycle(c, last.token)) =>
            /\ ~last.ok
            /\ last.kind = "circular"
            /\ last.chain[1] = last.token
            /\ last.err = "Circular dependencies dection at " \o JoinNames(last.chain)

NoMarker(provider) == ~reflect.classes[provider.v].marker /\ reflect.classes[provider.v].parent = "Object"

\* no decorator wrote under the injection key for the class of a constructable
\* provider: neither @Injectable() nor @Inject on a constructor parameter
NoMeta(provider) ==
    /\ NoMarker(provider)
    /\ \A i \in 1..Len(reflect.classes[provider.v].inject) : ~reflect.classes[provider.v].inject[i].set

\* the item's provider is a class that is not injectable (judged by the marker,
\* or by the metadata record), and no params were given
Uninjectable(item, byMarker) ==
    /\ isConstructable(item.provider)
    /\ IF byMarker THEN NoMarker(item.provider) ELSE NoMeta(item.provider)
    /\ ~item.options.params.set

\* such an item never holds a value, its provider is never constructed, and a
\* resolve of its token throws "<token> is not injectable."
NeverInjected(P) ==
    \A c \in Containers :
        /\ \A i \in 1..Len(Items(c)) :
              (ItemOf(c, Items(c)[i].token) = i /\ Uninjectable(Items(c)[i], P)) =>
                  /\ Items(c)[i].value = Undefined
                  /\ \A j \in 1..Len(constructed[c]) : constructed[c][j].token # Items(c)[i].token
        /\ (last.op = "resolve" /\ last.c = c /\ Uninjectable(Items(c)[ItemOf(c, last.token)], P)) =>
              /\ ~last.ok /\ last.kind = "notInjectable"
              /\ last.err = getName(last.token) \o " is not injectable."

\* C4 (as claimed): a class without the class-level @Injectable() marker and
\* without explicit params is never instantiated and resolving it throws the
\* not-injectable error, also when it carries @Inject on a constructor parameter.
C4_NoMarkerNotInjectable == NeverInjected(TRUE)

\* C4 (amended): a class with no metadata under the injection key at all
\* (neither @Injectable() nor @Inject on a constructor parameter) and without
\* explicit params is never instantiated and resolving it throws
\* "<token> is not injectable.".
C4_NoMetaNotInjectable == NeverInjected(FALSE)

\* the undecorated class C was requested and refused
C4_Witness ==
    /\ last.op = "resolve" /\ last.token = Cls("C") /\ last.kind = "notInjectable"
    /\ Items(1)[ItemOf(1, Cls("C"))].provider = Cls("C")
    /\ ~Items(1)[ItemOf(1, Cls("C"))].options.params.set

----------------------------------------------------------------------------
(* Properties of lifecycle execution *)

\* the methods of the token's provider tagged with the decorator, when the
\* token's item has a constructable provider
HooksIn(items, token, decorator) ==
    IF getRegistrationItem(items, token) # 0
       /\ isConstructable(items[getRegistrationItem(items, token)].provider)
    THEN listDecoratorMethods(decorator, items[getRegistrationItem(items, token)].provider.v)
    ELSE <<>>

HooksOf(c, token, decorator) == HooksIn(Items(c), token, decorator)

\* how many times the session's log has the event for the token's method
Count(log, ev, token, method) ==
    Cardinality({ i \in 1..Len(log) : log[i].ev = ev /\ log[i].token = token /\ log[i].method = method })

\* every hook of the token has completed in the session
HooksSettled(c, S, token) ==
    \A i \in 1..Len(HooksOf(c, token, S.decorator)) :
        Count(S.log, "settle", token, HooksOf(c, token, S.decorator)[i]) >= 1

\* a hook has just been invoked in the session and has not settled yet
Invoking(S) == Len(S.log) > 0 /\ S.log[Len(S.log)].ev = "invoke"

\* B is recorded in A's dependencies and B's value was passed to A's constructor
CtorCollaborator(c, A, B) ==
    /\ ItemOf(c, A) # 0 /\ ItemOf(c, B) # 0
    /\ B \in Range(Items(c)[ItemOf(c, A)].dependencies)
    /\ \E j \in 1..Len(constructed[c]) :
          /\ constructed[c][j].token = A
          /\ Items(c)[ItemOf(c, B)].value \in Range(constructed[c][j].args)

\* the executeItem call of the token has begun in the session and not returned
BeingExecuted(S, token) == \E f \in 1..Len(S.frames) : S.frames[f].token = token

\* when a hook of A is invoked, every collaborator B of A that has hooks has
\* completed them (strict), or has completed them or is being executed
DependencyFirst(strict) ==
    \A c \in Containers : \A s \in 1..Len(sessions[c]) :
        Invoking(sessions[c][s]) =>
            \A B \in AllTokens :
                (/\ B # sessions[c][s].log[Len(sessions[c][s].log)].token
                 /\ CtorCollaborator(c, sessions[c][s].log[Len(sessions[c][s].log)].token, B)
                 /\ HooksOf(c, B, sessions[c][s].decorator) # <<>>) =>
                    \/ HooksSettled(c, sessions[c][s], B)
                    \/ (~strict /\ BeingExecuted(sessions[c][s], B))

\* C5 (as claimed): in a pass, when a hook of A is invoked, every hook of each
\* constructor-injected collaborator B recorded in A's dependencies has
\* completed, whatever the order of registration.
C5_DependencyHooksFirst == DependencyFirst(TRUE)

\* C5 (amended): in a pass, when a hook of A is invoked, every hook of each
\* constructor-injected collaborator B recorded in A's dependencies has
\* completed, unless A was reached while B itself is being executed.
C5_DependencyHooksFirstUnlessRunning == DependencyFirst(FALSE)

\* a hook of an item is invoked after the hooks of a collaborator that was
\* registered after the item
C5_Witness ==
    \E s \in 1..Len(sessions[1]) :
        /\ Invoking(sessions[1][s])
        /\ \E B \in AllTokens :
              /\ CtorCollaborator(1, sessions[1][s].log[Len(sessions[1][s].log)].token, B)
              /\ HooksOf(1, B, sessions[1][s].decorator) # <<>>
              /\ HooksSettled(1, sessions[1][s], B)
              /\ ItemOf(1, B) > ItemOf(1, sessions[1][s].log[Len(sessions[1][s].log)].token)

\* no hook of any token has been invoked twice in the session
NoHookTwice(S) ==
    \A i, j \in 1..Len(S.log) :
        (i # j /\ S.log[i].ev = S.log[j].ev) =>
            (S.log[i].token # S.log[j].token \/ S.log[i].method # S.log[j].method)

\* every tagged method of every token of the registry whose item has a
\* constructable provider was invoked once in the session, and has settled
EveryHookOnce(items, S) ==
    \A i \in 1..Len(items) :
        \A h \in 1..Len(HooksIn(items, items[i].token, S.decorator)) :
            /\ Count(S.log, "invoke", items[i].token, HooksIn(items, items[i].token, S.decorator)[h]) = 1
            /\ Count(S.log, "settle", items[i].token, HooksIn(items, items[i].token, S.decorator)[h]) = 1

\* the session at position s of container c completes in this step
Completes(c, s) ==
    /\ s \in 1..Len(sessions'[c])
    /\ sessions'[c][s].status = "fulfilled"
    /\ (s > Len(sessions[c]) \/ sessions[c][s].status = "pending")

\* C6: no pass ever invokes a hook twice, and when a pass completes, every
\* tagged method of every token with a constructable provider (registered, or
\* reached as a dependency and so registered by the resolver) has been invoked
\* exactly once in it.
C6_EachHookOncePerPass ==
    [][\A c \in Containers : \A s \in 1..MaxCalls + 1 :
          /\ (s <= Len(sessions'[c]) => NoHookTwice(sessions'[c][s]))
          /\ (Completes(c, s) => EveryHookOnce(containers'[c].registrationItems, sessions'[c][s]))]_vars

\* a pass has completed in which Hub was met as an entry of the registry and
\* as the constructor dependency of both Spoke and Rim, and Spoke also as the
\* parameter of Hub's hook
C6_Witness ==
    \E s \in 1..Len(sessions[1]) :
        /\ sessions[1][s].status = "fulfilled" /\ sessions[1][s].decorator = Flow
        /\ CtorCollaborator(1, Cls("Spoke"), Cls("Hub"))
        /\ CtorCollaborator(1, Cls("Rim"), Cls("Hub"))
        /\ Count(sessions[1][s].log, "settle", Cls("Hub"), "link") = 1
        /\ Count(sessions[1][s].log, "settle", Cls("Spoke"), "run") = 1
        /\ Count(sessions[1][s].log, "settle", Cls("Rim"), "spin") = 1

\* what the hooks of the session returned, in the order they settled
RECURSIVE Returned(_)
Returned(log) ==
    IF Len(log) = 0 THEN <<>>
    ELSE IF log[Len(log)].ev = "settle"
    THEN Append(Returned(SubSeq(log, 1, Len(log) - 1)),
                Implementation(log[Len(log)].cls, log[Len(log)].method).returns)
    ELSE Returned(SubSeq(log, 1, Len(log) - 1))

\* C7: of two completed passes of a container with the same decorator, the
\* later invokes once more every hook the earlier invoked, and its output is
\* built from its own hooks' return values alone.
C7_SecondPassStartsAfresh ==
    \A c \in Containers : \A s1, s2 \in 1..Len(sessions[c]) :
        (/\ s1 < s2
         /\ sessions[c][s1].status = "fulfilled" /\ sessions[c][s2].status = "fulfilled"
         /\ sessions[c][s1].decorator = sessions[c][s2].decorator) =>
            /\ \A i \in 1..Len(sessions[c][s1].log) :
                  Count(sessions[c][s2].log, sessions[c][s1].log[i].ev,
                        sessions[c][s1].log[i].token, sessions[c][s1].log[i].method) = 1
            /\ sessions[c][s2].output = merge(JObj(<<>>), Returned(sessions[c][s2].log))

\* two passes with the same decorator have completed, and the hooks of the
\* first returned lists that a reused accumulator would have kept
C7_Witness ==
    /\ Len(sessions[1]) >= 2
    /\ sessions[1][1].status = "fulfilled" /\ sessions[1][2].status = "fulfilled"
    /\ sessions[1][1].decorator = sessions[1][2].decorator
    /\ Len(sessions[1][1].log) >= 4
    /\ isPlainObject(sessions[1][1].output) /\ "log" \in DOMAIN sessions[1][1].output.f
    /\ sessions[1][2].output = sessions[1][1].output

----------------------------------------------------------------------------
(* Properties of merge *)

\* the values held under the key by the target and by each source that is a
\* plain object, in the order of the arguments
RECURSIVE ValuesAt(_, _)
ValuesAt(args, key) ==
    IF Len(args) = 0 THEN <<>>
    ELSE IF isPlainObject(Head(args)) /\ key \in DOMAIN Head(args).f
    THEN <<Head(args).f[key]>> \o ValuesAt(Tail(args), key)
    ELSE ValuesAt(Tail(args), key)

\* the longest run of values of type t that ends the sequence
RECURSIVE LastRun(_, _)
LastRun(vals, t) ==
    IF Len(vals) = 0 \/ vals[Len(vals)].t # t THEN <<>>
    ELSE Append(LastRun(SubSeq(vals, 1, Len(vals) - 1), t), vals[Len(vals)])

RECURSIVE Flatten(_)
Flatten(lists) == IF Len(lists) = 0 THEN <<>> ELSE Head(lists).items \o Flatten(Tail(lists))

RECURSIVE KeysOf(_)
KeysOf(args) ==
    IF Len(args) = 0 THEN {}
    ELSE (IF isPlainObject(Head(args)) THEN DOMAIN Head(args).f ELSE {}) \cup KeysOf(Tail(args))

\* the rules per key: the last value given for the key decides; a scalar
\* stands alone, a list follows the lists given just before it, a plain
\* object is merged over the plain objects given just before it
RECURSIVE Folded(_)
FoldedKey(vals) ==
    IF vals[Len(vals)].t = "obj" THEN Folded(<<JObj(<<>>)>> \o LastRun(vals, "obj"))
    ELSE IF vals[Len(vals)].t = "arr" THEN JArr(Flatten(LastRun(vals, "arr")))
    ELSE vals[Len(vals)]

\* what the rules give for merge(args[1], args[2], ...)
Folded(args) ==
    IF ~isPlainObject(Head(args)) THEN Head(args)
    ELSE JObj([key \in KeysOf(args) |->
                 IF ValuesAt(Tail(args), key) = <<>> THEN Head(args).f[key]
                 ELSE FoldedKey(ValuesAt(args, key))])

\* C8: merge folds the sources into the target from left to right: per key a
\* plain object merges recursively, a list is concatenated after the target's
\* list, any other value overwrites; and the call of the test yields
\* {a:2, b:[1,2,3], c:{d:2}}.
C8_MergeRules ==
    mg.done =>
        /\ mg.result = Folded(<<mg.target>> \o mg.sources)
        /\ (mg.target = TestTarget /\ mg.sources = TestSources) =>
              mg.result = JObj([a |-> JNum(2),
                                b |-> JArr(<<JNum(1), JNum(2), JNum(3)>>),
                                c |-> JObj([d |-> JNum(2)])])

\* the call of the test has been made
C8_Witness ==
    /\ mg.done /\ mg.target = TestTarget /\ mg.sources = TestSources
    /\ mg.result.f["b"] = JArr(<<JNum(1), JNum(2), JNum(3)>>)

----------------------------------------------------------------------------
(* Properties of proxies *)

\* the value the container holds for the proxy's token
Singleton(proxy) == Items(proxy.c)[ItemOf(proxy.c, proxy.token)].value

\* C9: a read through the proxy returns, and a write through the proxy sets,
\* the property of proxyFn(<the token's singleton>) as that object is at the
\* moment of the access, whatever was changed since the proxy was made; an
\* access changes nothing else.
C9_ProxyHoldsNoSnapshot ==
    [][(px' # px /\ px'.got.op \in {"get", "set"}) =>
          IF proxyFn(px.heap, px.proxies[px'.got.p].fn, Singleton(px.proxies[px'.got.p])).k # "object"
          THEN ~px'.got.ok /\ px'.heap = px.heap
          ELSE /\ px'.got.ok
               /\ px'.got.op = "get" =>
                     /\ px'.heap = px.heap
                     /\ px'.got.val = Field(px.heap,
                                            proxyFn(px.heap, px.proxies[px'.got.p].fn,
                                                    Singleton(px.proxies[px'.got.p])),
                                            px'.got.prop)
               /\ px'.got.op = "set" =>
                     /\ Field(px'.heap,
                              proxyFn(px.heap, px.proxies[px'.got.p].fn, Singleton(px.proxies[px'.got.p])),
                              px'.got.prop) = px'.got.val
                     /\ \A x \in DOMAIN px.heap :
                           x # <<proxyFn(px.heap, px.proxies[px'.got.p].fn,
                                         Singleton(px.proxies[px'.got.p])).id, px'.got.prop>>
                               => (x \in DOMAIN px'.heap /\ px'.heap[x] = px.heap[x])]_vars

\* a read through a proxy made with (v) => v.config returned a property that
\* was written after the proxy was made, on an object that became the
\* singleton's config after the proxy was made
C9_Witness ==
    /\ px.got.op = "get" /\ px.got.ok /\ px.got.val # Undefined
    /\ px.proxies[px.got.p].fn = "config"
    /\ px.got.target # px.proxies[px.got.p].value
    /\ px.got.target # Field(px.proxies[px.got.p].made, px.proxies[px.got.p].value, "config")
    /\ px.got.val # Field(px.proxies[px.got.p].made, px.got.target, px.got.prop)

----------------------------------------------------------------------------
(* Properties of containers side by side *)

\* a container's registration items as a reader sees them: each item with the
\* array its options.params refers to
ItemsSeen(items, lists) ==
    [i \in 1..Len(items) |->
        [item |-> items[i],
         params |-> IF items[i].options.params.set THEN lists[items[i].options.params.ref] ELSE <<>>]]

\* C10: a register, resolve or execute on one container leaves the
\* registration items (with their options, cached values and dependency
\* lists), the resolution stack, the constructions and the sessions of every
\* other container as they were, and no object is the cached value of items
\* of two containers.
C10_ContainersIndependent ==
    [][/\ \A d \in Containers :
             d # last'.c =>
                 /\ ItemsSeen(containers'[d].registrationItems, paramLists') =
                        ItemsSeen(containers[d].registrationItems, paramLists)
                 /\ containers'[d].resolveTokenStack = containers[d].resolveTokenStack
                 /\ constructed'[d] = constructed[d]
                 /\ sessions'[d] = sessions[d]
       /\ \A c, d \in Containers :
             c # d =>
                 \A i \in 1..Len(containers'[c].registrationItems) :
                     \A j \in 1..Len(containers'[d].registrationItems) :
                         containers'[c].registrationItems[i].value.k = "object" =>
                             containers'[c].registrationItems[i].value #
                                 containers'[d].registrationItems[j].value]_vars

----------------------------------------------------------------------------
(* Properties of the registry *)

\* no two items of the list carry the same token
OneItemPerToken(items) ==
    \A i, j \in 1..Len(items) : i # j => items[i].token # items[j].token

\* this step is a register() call on container c for a token that the
\* container already holds an item for
ReRegisters(c) ==
    /\ nregs'[c] # nregs[c]
    /\ getRegistrationItem(containers[c].registrationItems, last'.token) # 0

\* C11 (as claimed): whatever calls were made, a container holds at most one
\* registration item per distinct token.
C11_OneItemPerToken == \A c \in Containers : OneItemPerToken(Items(c))

\* C11 (amended): a container that holds at most one item per token still does
\* after any register, resolve or execute step, unless the step is a register()
\* call for a token the container already holds an item for.
C11_OneItemPerTokenUnlessReRegistered ==
    [][\A c \in Containers :
          (OneItemPerToken(containers[c].registrationItems) /\ ~ReRegisters(c)) =>
              OneItemPerToken(containers'[c].registrationItems)]_vars

\* a pass has completed on a registry whose items were made by register() and,
\* for the tokens met as dependencies and hook parameters, by the resolver,
\* each token once
C11_Witness ==
    /\ nregs[1] = 1 /\ Len(Items(1)) >= 3
    /\ OneItemPerToken(Items(1))
    /\ \E s \in 1..Len(sessions[1]) :
          sessions[1][s].status = "fulfilled" /\ Len(sessions[1][s].log) >= 2

----------------------------------------------------------------------------
(* Properties of optional constructor parameters *)

\* the tokens the item at ix pushed on its dependencies between two states of
\* the registry: the parameters its constructor loop tried
ParamsTried(before, after, ix) ==
    SubSeq(after[ix].dependencies,
           (IF ix <= Len(before) THEN Len(before[ix].dependencies) ELSE 0) + 1,
           Len(after[ix].dependencies))

\* a resolveItem of the token has returned: its item holds a value, or has no
\* provider and allows undefined
Settles(items, token) ==
    /\ getRegistrationItem(items, token) # 0
    /\ \/ items[getRegistrationItem(items, token)].value # Undefined
       \/ /\ ~isConstructable(items[getRegistrationItem(items, token)].provider)
          /\ items[getRegistrationItem(items, token)].options.undefined

\* the value the registry holds for the token, undefined when it holds none
ValueOf(items, token) ==
    IF getRegistrationItem(items, token) = 0 THEN Undefined
    ELSE items[getRegistrationItem(items, token)].value

\* the class n has a constructor parameter marked allow-undefined
HasOptional(n, types) == \E i \in 1..Len(types) : InjectAt(n, i).undefined

\* the loop over the parameters of the item at ix (class n, parameter types
\* types, tokens tried) stopped early only at a parameter that is not
\* optional; and when every parameter that is not optional was resolved and
\* the constructor does not throw, the item holds an object that was
\* constructed (made: the constructions of the step) with every parameter,
\* undefined at each optional position whose token holds no value
Swallows(n, types, tried, after, made, ix) ==
    tried # <<>> =>
        /\ Len(tried) <= Len(types)
        /\ Len(tried) < Len(types) => ~InjectAt(n, Len(tried)).undefined
        /\ (/\ Len(tried) = Len(types)
            /\ ~reflect.classes[n].throws
            /\ \A j \in 1..Len(tried) : ~InjectAt(n, j).undefined => Settles(after, tried[j])) =>
               /\ after[ix].value.k = "object"
               /\ \E r \in Range(made) :
                     /\ r.token = after[ix].token /\ r.id = after[ix].value.id
                     /\ Len(r.args) = Len(types)
                     /\ \A j \in 1..Len(types) :
                           IF InjectAt(n, j).undefined
                           THEN r.args[j] \in {Undefined, ValueOf(after, tried[j])}
                           ELSE r.args[j] = ValueOf(after, tried[j])

\* C12: whatever the failure of an optional (allow-undefined) constructor
\* parameter is (missing dependency, not injectable, circular, or a throw
\* further down), the loop goes on to the remaining parameters, and when those
\* that are not optional resolve, the owner is constructed with undefined at
\* the failed position and holds the object.
C12_OptionalFailureSwallowed ==
    [][\A c \in Containers : \A ix \in 1..Len(containers'[c].registrationItems) :
          (/\ isConstructable(containers'[c].registrationItems[ix].provider)
           /\ HasOptional(containers'[c].registrationItems[ix].provider.v,
                          ParamTypes([items |-> containers'[c].registrationItems, pt |-> paramtypes',
                                      lists |-> paramLists'], ix))) =>
              Swallows(containers'[c].registrationItems[ix].provider.v,
                       ParamTypes([items |-> containers'[c].registrationItems, pt |-> paramtypes',
                                   lists |-> paramLists'], ix),
                       ParamsTried(containers[c].registrationItems, containers'[c].registrationItems, ix),
                       containers'[c].registrationItems,
                       SubSeq(constructed'[c], Len(constructed[c]) + 1, Len(constructed'[c])),
                       ix)]_vars

\* Lax was constructed although its first four parameters failed, one in each
\* way: 'gender' missing, C not injectable, Fuse's own dependency throwing,
\* Back circular; its last parameter was resolved
C12_Witness ==
    /\ last.op = "resolve" /\ last.token = Cls("Lax") /\ last.ok
    /\ ValueOf(Items(1), Cls("Lax")) = last.val
    /\ \A t \in {Str("gender"), Cls("C"), Cls("Fuse"), Cls("Boom"), Cls("Back")} :
          getRegistrationItem(Items(1), t) # 0 /\ ValueOf(Items(1), t) = Undefined
    /\ \E j \in 1..Len(constructed[1]) :
          /\ constructed[1][j].token = Cls("Lax")
          /\ constructed[1][j].args =
                <<Undefined, Undefined, Undefined, Undefined, ValueOf(Items(1), Cls("B"))>>
          /\ ValueOf(Items(1), Cls("B")).k = "object"

----------------------------------------------------------------------------
(* Properties of method listing *)

\* the class and the classes it extends, Object left out
RECURSIVE Chain(_)
Chain(n) == IF n = "Object" THEN {} ELSE {n} \cup Chain(reflect.classes[n].parent)

\* how many classes the class extends
RECURSIVE Depth(_)
Depth(n) == IF n = "Object" THEN 0 ELSE 1 + Depth(reflect.classes[n].parent)

\* the classes of the chain of n that declare a method of that name
Declarers(n, name) == { m \in Chain(n) : OwnMethod(m, name) # 0 }

\* the base-most class of the chain of n that declares the name
FirstDeclarer(n, name) ==
    CHOOSE m \in Declarers(n, name) : \A o \in Declarers(n, name) : Depth(m) <= Depth(o)

\* base-to-derived order: a's first declaration is in a class nearer the base
\* than b's, or in the same class before b's
Before(n, a, b) ==
    \/ Depth(FirstDeclarer(n, a)) < Depth(FirstDeclarer(n, b))
    \/ /\ FirstDeclarer(n, a) = FirstDeclarer(n, b)
       /\ OwnMethod(FirstDeclarer(n, a), a) < OwnMethod(FirstDeclarer(n, b), b)

\* the list holds exactly the names of the set, each once, base to derived
ListsInOrder(n, list, names) ==
    /\ Range(list) = names
    /\ \A i, j \in 1..Len(list) : i < j => Before(n, list[i], list[j])

\* the methods declared anywhere in the chain of n
MethodNames(n) == { name \in UNION { Range(OwnPropertyNames(m)) : m \in Chain(n) } : name # "constructor" }

\* a declaration of the name somewhere in the chain of n carries the key
Carries(key, n, name) ==
    \E m \in Declarers(n, name) : key \in reflect.classes[m].methods[OwnMethod(m, name)].tags

\* C13: listAllMethods gives every method name of the inheritance chain once,
\* without 'constructor', base to derived, a name declared again in a derived
\* class staying where its first declaration puts it; listDecoratorMethods
\* gives, in the same order, those that carry the key; and the hooks of one
\* item are invoked in a pass in that order, those declared in a base class
\* before those declared only in the derived class.
C13_BaseHooksFirst ==
    /\ reflect.call.fn = "listAllMethods" =>
          ListsInOrder(reflect.call.target, reflect.call.result, MethodNames(reflect.call.target))
    /\ reflect.call.fn = "listDecoratorMethods" =>
          ListsInOrder(reflect.call.target, reflect.call.result,
                       { name \in MethodNames(reflect.call.target) :
                            Carries(reflect.call.key, reflect.call.target, name) })
    /\ \A c \in Containers : \A s \in 1..Len(sessions[c]) :
          \A i, j \in 1..Len(sessions[c][s].log) :
              (/\ i < j
               /\ sessions[c][s].log[i].ev = "invoke" /\ sessions[c][s].log[j].ev = "invoke"
               /\ sessions[c][s].log[i].token = sessions[c][s].log[j].token) =>
                  Before(sessions[c][s].log[i].cls, sessions[c][s].log[i].method, sessions[c][s].log[j].method)

\* the methods of SomeClass were listed as the test expects, and a pass has
\* invoked the hooks of Leaf: those whose names Base and Mid declare, then its own
C13_Witness ==
    /\ reflect.call.fn = "listAllMethods" /\ reflect.call.target = "SomeClass"
    /\ reflect.call.result = <<"say", "log", "extra">>
    /\ \E s \in 1..Len(sessions[1]) :
          /\ sessions[1][s].status = "fulfilled"
          /\ [i \in 1..Len(sessions[1][s].log) |-> sessions[1][s].log[i].method] =
                <<"open", "open", "tick", "tick", "shut", "shut", "sync", "sync", "first", "first">>

----------------------------------------------------------------------------
(* Properties of the order of hooks in a pass *)

\* the log is a sequence of pairs: a hook invoked, then that hook settled
Alternates(log) ==
    \A i \in 1..Len(log) :
        IF i % 2 = 1 THEN log[i].ev = "invoke"
        ELSE /\ log[i].ev = "settle"
             /\ log[i].token = log[i - 1].token
             /\ log[i].method = log[i - 1].method
             /\ log[i].id = log[i - 1].id

\* C14: in every pass a hook is invoked only when the hook invoked before it
\* has settled, and the output already holds the merged return values of all
\* settled hooks: at most one hook of the pass is in flight.
C14_HooksSequential ==
    \A c \in Containers : \A s \in 1..Len(sessions[c]) :
        /\ Alternates(sessions[c][s].log)
        /\ sessions[c][s].output = merge(JObj(<<>>), Returned(sessions[c][s].log))

\* a hook is in flight, two hooks of the pass have settled before it and the
\* output holds what they returned
C14_Witness ==
    \E s \in 1..Len(sessions[1]) :
        /\ sessions[1][s].status = "pending"
        /\ Len(sessions[1][s].log) = 5
        /\ Invoking(sessions[1][s])
        /\ "log" \in DOMAIN sessions[1][s].output.f
        /\ Len(sessions[1][s].output.f["log"].items) = 2

----------------------------------------------------------------------------
(* Properties of decorators and their metadata *)

\* two decorators made with different keys, or both without a key
MadeApart(d1, d2) == d1.given # d2.given \/ (d1.given = "" /\ d2.given = "")

\* what getMetadata reports under the key at the class, at its constructor's
\* record and at the method, and what listDecoratorMethods reports
Reports(defined, key, n, property) ==
    [meta |-> getMetadata(defined, key, n, property),
     methods |-> listDecoratorMethodsIn(defined, key, n)]

\* C15: decorators made by createDecorator with different keys, or each
\* without a key, have different keys, and applying one of them at a class, a
\* constructor parameter, a method or a method parameter leaves what
\* getMetadata and listDecoratorMethods report under the key of any other of
\* them as it was, at every site.
C15_DecoratorsNeverCollide ==
    [][/\ \A i, j \in 1..Len(reflect'.decorators) :
             (i # j /\ MadeApart(reflect'.decorators[i], reflect'.decorators[j])) =>
                 reflect'.decorators[i].key # reflect'.decorators[j].key
       /\ reflect'.call.fn = "attach" =>
             \A i, j \in 1..Len(reflect.decorators) :
                 (/\ reflect.decorators[i].key = reflect'.call.key
                  /\ MadeApart(reflect.decorators[i], reflect.decorators[j])
                  /\ i # j) =>
                     \A n \in AttachTargets : \A property \in {"", "say", "log"} :
                         Reports(reflect'.defined, reflect.decorators[j].key, n, property) =
                             Reports(reflect.defined, reflect.decorators[j].key, n, property)]_vars

\* two decorators made without a key have both been applied to SomeClass: the
\* second to the method it inherits, then the first to its constructor's
\* parameter; each key reports its own methods
C15_Witness ==
    /\ Len(reflect.decorators) = 2
    /\ reflect.decorators[1].given = "" /\ reflect.decorators[2].given = ""
    /\ reflect.call.fn = "attach" /\ reflect.call.key = reflect.decorators[1].key
    /\ getOwnMetadata(reflect.defined, reflect.decorators[1].key, "SomeClass", "") = {<<"0", <<Str("a")>>>>}
    /\ getOwnMetadata(reflect.defined, reflect.decorators[2].key, "SomeClass", "say") =
          {<<"undefined", <<Str("a")>>>>}
    /\ listDecoratorMethodsIn(reflect.defined, reflect.decorators[1].key, "SomeClass") = <<"say", "log">>
    /\ listDecoratorMethodsIn(reflect.defined, reflect.decorators[2].key, "SomeClass") = <<"say">>

----------------------------------------------------------------------------
(* Properties of hook parameters *)

\* the token resolved for the parameter at p of the hook: the @Inject
\* override, else the declared type
ParamTokenOf(cls, method, p) ==
    IF MethodInjectAt(cls, method, p).set THEN MethodInjectAt(cls, method, p).token
    ELSE DecoratedMethod(cls, method).types[p]

\* the hook of event e was invoked with the value the registry holds for the
\* token of its parameter at p, and the hooks of that token have completed in
\* the session (strict), or have completed or the token is being executed
ParameterReady(c, S, e, p, strict) ==
    /\ Settles(Items(c), ParamTokenOf(e.cls, e.method, p))
    /\ Len(e.params) >= p
    /\ e.params[p] = ValueOf(Items(c), ParamTokenOf(e.cls, e.method, p))
    /\ HooksOf(c, ParamTokenOf(e.cls, e.method, p), S.decorator) # <<>> =>
          \/ HooksSettled(c, S, ParamTokenOf(e.cls, e.method, p))
          \/ (~strict /\ BeingExecuted(S, ParamTokenOf(e.cls, e.method, p)))

ParametersFirst(strict) ==
    \A c \in Containers : \A s \in 1..Len(sessions[c]) :
        Invoking(sessions[c][s]) =>
            \A p \in 1..Len(DecoratedMethod(sessions[c][s].log[Len(sessions[c][s].log)].cls,
                                            sessions[c][s].log[Len(sessions[c][s].log)].method).types) :
                ParameterReady(c, sessions[c][s], sessions[c][s].log[Len(sessions[c][s].log)], p, strict)

\* C16 (as claimed): when a hook is invoked in a pass, each of its parameter
\* tokens has been resolved and every hook of each parameter token has
\* completed in the pass, also when two items take each other as hook
\* parameters.
C16_HookParametersFirst == ParametersFirst(TRUE)

\* C16 (amended): when a hook is invoked in a pass, each of its parameter
\* tokens has been resolved and every hook of each parameter token has
\* completed in the pass, unless that token is itself being executed.
C16_HookParametersFirstUnlessRunning == ParametersFirst(FALSE)

\* A.begin is invoked with the instance of B after B.parent has settled
C16_Witness ==
    \E s \in 1..Len(sessions[1]) :
        /\ Invoking(sessions[1][s])
        /\ sessions[1][s].log[Len(sessions[1][s].log)].token = Cls("A")
        /\ sessions[1][s].log[Len(sessions[1][s].log)].method = "begin"
        /\ sessions[1][s].log[Len(sessions[1][s].log)].params = <<ValueOf(Items(1), Cls("B"))>>
        /\ Count(sessions[1][s].log, "settle", Cls("B"), "parent") = 1
        /\ ~BeingExecuted(sessions[1][s], Cls("B"))

----------------------------------------------------------------------------
(* Properties of the resolution stack *)

\* C17: resolveTokenStack is the image of the construction in progress: each
\* token is popped by its own frame, so the stack is empty whenever a
\* top-level resolve has returned, also when a nested failure was swallowed
\* by an allow-undefined parameter.
C17_StackFaithful ==
    (last.op = "resolve" /\ last.ok) => containers[last.c].resolveTokenStack = <<>>


\* C18: resolveItem raises the circular-dependency error for a token only
\* while the construction of that token is in progress: the token is among
\* the callers of the request that threw, and a token whose earlier attempt
\* failed and was swallowed is not reported as circular.
C18_CircularOnlyInProgress ==
    (last.op = "resolve" /\ last.kind = "circular") =>
        IndexOf(SubSeq(last.chain, 1, Len(last.chain) - 1), last.chain[Len(last.chain)]) # 0

----------------------------------------------------------------------------
(* Properties of the parameter tokens *)

\* the tokens first resolved for the item are those of the list, position by
\* position
ResolvedFrom(dependencies, list) ==
    \A i \in 1..Len(list) : i <= Len(dependencies) => dependencies[i] = list[i]

\* C19: for an item registered with an explicit params list, the token
\* resolved for position i is params[i], also where @Inject metadata exists
\* for the position, and resolution leaves the caller's list as it was.
C19_ExplicitParamsWin ==
    /\ paramLists = CallerLists
    /\ \A c \in Containers : \A ix \in 1..Len(Items(c)) :
          Items(c)[ix].options.params.set =>
              ResolvedFrom(Items(c)[ix].dependencies, CallerLists[Items(c)[ix].options.params.ref])


\* C20: a missing-dependency or not-injectable error names the chain of the
\* request that failed: the tokens from the one asked of resolve down to the
\* failing one, joined by ' > ', and no other token.
C20_ErrorNamesChain ==
    /\ (last.op = "resolve" /\ last.kind = "missing") =>
          last.err = JoinNames(last.chain) \o " wasn't injected"
    /\ (last.op = "resolve" /\ last.kind = "notInjectable") =>
          last.err = JoinNames(last.chain) \o " is not injectable."

----------------------------------------------------------------------------
(* Properties of the dependency lists *)

\* C21: a constructable item that holds its instance has as dependencies the
\* parameter tokens of its constructor as the resolution found them, one
\* entry per parameter, whatever earlier attempts to resolve it did.
C21_DependenciesRebuilt ==
    \A c \in Containers : \A ix \in 1..Len(Items(c)) :
        (isConstructable(Items(c)[ix].provider) /\ Items(c)[ix].value # Undefined) =>
            Items(c)[ix].dependencies = ParamTypes(Machine(c), ix)

----------------------------------------------------------------------------
(* Properties of the output of execute *)

\* the step from log to later appended the settling of a hook whose return
\* value is no plain object
SettledOther(log, later) ==
    /\ Len(later) > Len(log)
    /\ later[Len(log) + 1].ev = "settle"
    /\ ~isPlainObject(Implementation(later[Len(log) + 1].cls, later[Len(log) + 1].method).returns)

\* C22: the output execute returns is what the merge rules give for the empty
\* object and the return values of the hooks of the pass in the order they
\* were invoked, and a hook that returns no plain object leaves the output as
\* it was.
C22_OutputAggregates ==
    [][\A c \in Containers : \A s \in 1..Len(sessions'[c]) :
          /\ sessions'[c][s].status = "fulfilled" =>
                sessions'[c][s].output = Folded(<<JObj(<<>>)>> \o Returned(sessions'[c][s].log))
          /\ (s <= Len(sessions[c]) /\ SettledOther(sessions[c][s].log, sessions'[c][s].log)) =>
                sessions'[c][s].output = sessions[c][s].output]_vars

\* a pass of Mixed has returned: six hooks settled, four of them with a value
\* that is no plain object, and the output holds the two reports merged
C22_Witness ==
    \E s \in 1..Len(sessions[1]) :
        /\ sessions[1][s].status = "fulfilled"
        /\ Count(sessions[1][s].log, "settle", Cls("Mixed"), "self") = 1
        /\ Count(sessions[1][s].log, "settle", Cls("Mixed"), "more") = 1
        /\ sessions[1][s].output.f["log"] = JArr(<<JStr("Mixed.data"), JStr("Mixed.more")>>)

----------------------------------------------------------------------------
(* Properties of errors *)

\* the class cannot be constructed: its constructor throws, or its first
\* parameter is required and is a class that cannot be constructed; d bounds
\* the length of the chain
RECURSIVE Doomed(_, _)
Doomed(n, d) ==
    /\ d > 0
    /\ HasInjectionMeta(n)
    /\ \/ reflect.classes[n].throws /\ reflect.classes[n].types = <<>>
       \/ /\ Len(reflect.classes[n].types) >= 1
          /\ ~InjectAt(n, 1).set
          /\ reflect.classes[n].types[1].k = "class"
          /\ Doomed(reflect.classes[n].types[1].v, d - 1)

DoomedItem(item) == isConstructable(item.provider) /\ Doomed(item.provider.v, Cardinality(ClassNames))

\* the hook of the event fails: it throws, or its promise is rejected
Failing(e) == Implementation(e.cls, e.method).returns.t \in {"throw", "reject"}

\* the failure of a hook is the last thing the pass did, and the pass is
\* rejected with the hook's error
FailureEnds(S) ==
    \A i \in 1..Len(S.log) :
        /\ S.log[i].ev = "fail" =>
              /\ i = Len(S.log)
              /\ S.status = "rejected"
              /\ S.err = Implementation(S.log[i].cls, S.log[i].method).returns.msg
        /\ (S.log[i].ev = "invoke" /\ Failing(S.log[i]) /\ i < Len(S.log)) => S.log[i + 1].ev = "fail"
        /\ (S.log[i].ev = "invoke" /\ Implementation(S.log[i].cls, S.log[i].method).returns.t = "throw") =>
              i < Len(S.log)
        /\ S.log[i].ev = "settle" => ~Failing(S.log[i])

\* C23: an error thrown by a constructor that is reached through required
\* parameters is the error resolve and execute fail with, and so is the error
\* a hook throws or rejects with; after a hook has failed the pass invokes no
\* further hook and is rejected.
C23_ErrorsPropagate ==
    /\ (last.op = "resolve" /\ DoomedItem(Items(last.c)[ItemOf(last.c, last.token)])) =>
          (~last.ok /\ last.err = ConstructorError)
    /\ \A c \in Containers : \A s \in 1..Len(sessions[c]) : FailureEnds(sessions[c][s])
    /\ (last.op = "execute" /\ \E ix \in 1..Len(Items(last.c)) : DoomedItem(Items(last.c)[ix])) =>
          LET S == sessions[last.c][Len(sessions[last.c])]
          IN  \/ S.status = "pending"
              \/ /\ S.status = "rejected"
                 /\ \/ S.err = ConstructorError
                    \/ Len(S.log) > 0 /\ S.log[Len(S.log)].ev = "fail"

\* Trip.warm has settled, Trip.fall has thrown 'fell', Trip.after was never
\* invoked and the pass is rejected with 'fell'
C23_Witness ==
    \E s \in 1..Len(sessions[1]) :
        /\ sessions[1][s].status = "rejected"
        /\ sessions[1][s].err = "fell"
        /\ Count(sessions[1][s].log, "settle", Cls("Trip"), "warm") = 1
        /\ Count(sessions[1][s].log, "fail", Cls("Trip"), "fall") = 1
        /\ Count(sessions[1][s].log, "invoke", Cls("Trip"), "after") = 0

----------------------------------------------------------------------------
(* Properties of the order of a pass *)

\* the parameter tokens of the hooks of class n, whatever their decorator
HookTokens(n) ==
    UNION { { ParamTokenOf(n, name, p) : p \in 1..Len(DecoratedMethod(n, name).types) } :
               name \in Range(listAllMethods(n)) }

\* the class constructed for the token: its item's provider, or the token
\* itself where it has no item yet
ProviderOf(c, token) ==
    IF ItemOf(c, token) # 0 THEN Items(c)[ItemOf(c, token)].provider
    ELSE IF isConstructable(token) THEN token ELSE Undefined

\* the tokens the token depends on: those recorded in its item's
\* dependencies, the parameters of its constructor and those of its hooks
Needs(c, token) ==
    IF ~isConstructable(ProviderOf(c, token)) THEN {}
    ELSE (IF ItemOf(c, token) # 0
          THEN Range(Items(c)[ItemOf(c, token)].dependencies)
                   \cup { (IF InjectAt(ProviderOf(c, token).v, i).set
                           THEN InjectAt(ProviderOf(c, token).v, i).token
                           ELSE ParamTypes(Machine(c), ItemOf(c, token))[i]) :
                             i \in 1..Len(ParamTypes(Machine(c), ItemOf(c, token))) }
          ELSE { (IF InjectAt(ProviderOf(c, token).v, i).set
                  THEN InjectAt(ProviderOf(c, token).v, i).token
                  ELSE reflect.classes[ProviderOf(c, token).v].types[i]) :
                    i \in 1..Len(reflect.classes[ProviderOf(c, token).v].types) })
         \cup HookTokens(ProviderOf(c, token).v)

RECURSIVE Linked(_, _, _)
Linked(c, from, n) ==
    IF n = 0 THEN from
    ELSE Linked(c, from \cup UNION { Needs(c, t) : t \in from }, n - 1)

\* the token depends on the other, directly or transitively
DependsOn(c, token, other) == other \in Linked(c, Needs(c, token), Cardinality(AllTokens))

\* a token registered before position ix depends on the token
NeededBefore(c, ix, token) ==
    \E z \in 1..(ix - 1) : Items(c)[z].token # token /\ DependsOn(c, Items(c)[z].token, token)

\* when a hook of a token is invoked, the hooks of every token with hooks
\* that was registered earlier and has no dependency relation with it have
\* completed (strict), or have completed unless a token registered still
\* earlier depends on the token invoked
RegistrationOrder(strict) ==
    \A c \in Containers : \A s \in 1..Len(sessions[c]) :
        Invoking(sessions[c][s]) =>
            \A e \in 1..Len(Items(c)) :
                (/\ ItemOf(c, Items(c)[e].token) = e
                 /\ e < ItemOf(c, sessions[c][s].log[Len(sessions[c][s].log)].token)
                 /\ HooksOf(c, Items(c)[e].token, sessions[c][s].decorator) # <<>>
                 /\ ~DependsOn(c, Items(c)[e].token, sessions[c][s].log[Len(sessions[c][s].log)].token)
                 /\ ~DependsOn(c, sessions[c][s].log[Len(sessions[c][s].log)].token, Items(c)[e].token)
                 /\ (strict \/ ~NeededBefore(c, e, sessions[c][s].log[Len(sessions[c][s].log)].token))) =>
                    HooksSettled(c, sessions[c][s], Items(c)[e].token)

\* C24 (as claimed): of two tokens of the registry with constructable
\* providers and no dependency relation between them, every hook of the one
\* registered earlier has run before any hook of the one registered later.
C24_RegistrationOrder == RegistrationOrder(TRUE)

\* C24 (amended): the same, unless a token registered before the earlier of the
\* two depends on the later one.
C24_RegistrationOrderUnlessNeeded == RegistrationOrder(FALSE)

\* B was registered before Rim, and Rim.spin is invoked after B.parent has
\* settled
C24_Witness ==
    \E s \in 1..Len(sessions[1]) :
        /\ Invoking(sessions[1][s])
        /\ sessions[1][s].log[Len(sessions[1][s].log)].token = Cls("Rim")
        /\ ItemOf(1, Cls("B")) = 1
        /\ ItemOf(1, Cls("Rim")) = 2
        /\ Count(sessions[1][s].log, "settle", Cls("B"), "parent") = 1

----------------------------------------------------------------------------
(* Properties of termination *)

\* C25: where every hook that is invoked settles, every execute call settles,
\* also when the hooks of two items take each other as parameters, when
\* dependency lists hold a token more than once and when tokens are
\* registered by the resolver during the pass.
C25_ExecuteTerminates ==
    \A s \in 1..MaxCalls + 1 :
        (Len(sessions[1]) >= s /\ sessions[1][s].status = "pending")
            ~> (Len(sessions[1]) >= s /\ sessions[1][s].status # "pending")

\* a second pass has returned in which the hooks of Ping and Pong, which take
\* each other as parameters, have settled; Pong was registered by the
\* resolver and Ping's dependencies hold Pong twice
C25_Witness ==
    /\ Len(sessions[1]) = 2
    /\ sessions[1][2].status = "fulfilled"
    /\ Count(sessions[1][2].log, "settle", Cls("Ping"), "hit") = 1
    /\ Count(sessions[1][2].log, "settle", Cls("Pong"), "hit") = 1
    /\ nregs[1] = 1
    /\ ItemOf(1, Cls("Pong")) = 2
    /\ Items(1)[ItemOf(1, Cls("Ping"))].dependencies = <<Cls("Pong"), Cls("Pong")>>

\* the item at position j has an item with the same token before it
Shadowed(c, j) == \E i \in 1..(j - 1) : Items(c)[i].token = Items(c)[j].token

\* the value a resolve of the item at position ix hands out
Serves(c, ix, val) ==
    /\ val = Items(c)[ix].value
    /\ IF isConstructable(Items(c)[ix].provider)
       THEN val.k = "object" /\ val.v = Items(c)[ix].provider.v
       ELSE val = Items(c)[ix].provider

\* C26: when a token is registered more than once the registry keeps every
\* item, and only the earliest item of the token is ever used: a later item
\* never gets a value (nor dependencies), a successful resolve returns the
\* value of the earliest item, and every construction and every hook call of
\* the token is of the earliest item's provider.
C26_EarliestItemUsed ==
    /\ Len(Items(1)) >= nregs[1]
    /\ \A j \in 1..Len(Items(1)) :
           Shadowed(1, j) => Items(1)[j].value = Undefined /\ Items(1)[j].dependencies = <<>>
    /\ (last.op = "resolve" /\ last.c = 1 /\ last.ok) => Serves(1, ItemOf(1, last.token), last.val)
    /\ \A k \in 1..Len(constructed[1]) :
           /\ ItemOf(1, constructed[1][k].token) # 0
           /\ constructed[1][k].cls = Items(1)[ItemOf(1, constructed[1][k].token)].provider.v
           /\ constructed[1][k].id = Items(1)[ItemOf(1, constructed[1][k].token)].value.id
    /\ \A s \in 1..Len(sessions[1]) : \A e \in 1..Len(sessions[1][s].log) :
           /\ sessions[1][s].log[e].cls = Items(1)[ItemOf(1, sessions[1][s].log[e].token)].provider.v
           /\ sessions[1][s].log[e].id = Items(1)[ItemOf(1, sessions[1][s].log[e].token)].value.id

\* svc is registered with B and then with Rim; svc was resolved to a B and a
\* pass has run B.parent for svc, while the item of Rim was left alone
C26_Witness ==
    /\ Len(Items(1)) = 2
    /\ Items(1)[1].token = Str("svc") /\ Items(1)[1].provider = Cls("B")
    /\ Items(1)[2].token = Str("svc") /\ Items(1)[2].provider = Cls("Rim")
    /\ Items(1)[1].value # Undefined /\ Items(1)[2].value = Undefined
    /\ Len(constructed[1]) = 1
    /\ Len(sessions[1]) >= 1 /\ sessions[1][1].status = "fulfilled"
    /\ Count(sessions[1][1].log, "settle", Str("svc"), "parent") = 1
    /\ Count(sessions[1][1].log, "invoke", Str("svc"), "spin") = 0

\* the item at position i holds an instance its provider class was constructed to
Instance(c, i) == isConstructable(Items(c)[i].provider) /\ Items(c)[i].value # Undefined

\* C27: tokens are the bindings, not provider classes: items of different
\* tokens hold different instances even when their provider is the same class
\* (a class under a string token and under its own class token), and each
\* token's instance is constructed once.
C27_BindingPerToken ==
    /\ \A i, j \in 1..Len(Items(1)) :
           (i # j /\ Instance(1, i) /\ Instance(1, j)) => Items(1)[i].value.id # Items(1)[j].value.id
    /\ \A k, l \in 1..Len(constructed[1]) :
           k # l => /\ constructed[1][k].token # constructed[1][l].token
                    /\ constructed[1][k].id # constructed[1][l].id
    /\ \A i \in 1..Len(Items(1)) :
           Instance(1, i) =>
               \E k \in 1..Len(constructed[1]) :
                   /\ constructed[1][k].token = Items(1)[i].token
                   /\ constructed[1][k].id = Items(1)[i].value.id

\* B is registered under 'svc' and requested by its class token as well: two
\* items, two instances of B
C27_Witness ==
    /\ ItemOf(1, Str("svc")) # 0 /\ ItemOf(1, Cls("B")) # 0
    /\ Items(1)[ItemOf(1, Str("svc"))].provider = Cls("B")
    /\ Items(1)[ItemOf(1, Cls("B"))].provider = Cls("B")
    /\ Instance(1, ItemOf(1, Str("svc"))) /\ Instance(1, ItemOf(1, Cls("B")))
    /\ Items(1)[ItemOf(1, Str("svc"))].value.v = "B"
    /\ Items(1)[ItemOf(1, Cls("B"))].value.v = "B"
    /\ Items(1)[ItemOf(1, Str("svc"))].value.id # Items(1)[ItemOf(1, Cls("B"))].value.id
    /\ last.op = "resolve" /\ last.ok

\* the item the resolver adds for a token nobody registered: this.register(token)
AutoItem(token) == register(<<>>, token, Undefined, DefaultOptions)[1]

\* the positions of the items of the token that the caller registered with a
\* provider or options of their own
Given(c, token) ==
    { i \in 1..Len(Items(c)) :
        /\ Items(c)[i].token = token
        /\ [Items(c)[i] EXCEPT !.value = Undefined, !.dependencies = <<>>] # AutoItem(token) }

\* C28: when the caller has registered a token once, a resolve of the token
\* works on that registration (and so succeeds when its provider is a value
\* or its options allow undefined), whether or not the token was requested,
\* and auto-registered, before the register call.
C28_RegisteredProviderUsed ==
    (last.op = "resolve" /\ last.c = 1 /\ Cardinality(Given(1, last.token)) = 1) =>
        /\ ItemOf(1, last.token) \in Given(1, last.token)
        /\ ~isConstructable(Items(1)[CHOOSE i \in Given(1, last.token) : TRUE].provider) =>
               (last.ok /\ last.val = Items(1)[CHOOSE i \in Given(1, last.token) : TRUE].provider)

IsInvoke(e) == e.ev = "invoke"

\* the hooks a pass has invoked, in order
HookOrder(log) ==
    [i \in 1..Len(SelectSeq(log, IsInvoke)) |->
        <<SelectSeq(log, IsInvoke)[i].token, SelectSeq(log, IsInvoke)[i].method>>]

\* C29: with no register call in between, two completed passes of the same
\* decorator have invoked the same hooks in the same order.
C29_SameHookOrder ==
    \A s1, s2 \in 1..Len(sessions[1]) :
        (/\ s1 < s2
         /\ sessions[1][s1].status = "fulfilled" /\ sessions[1][s2].status = "fulfilled"
         /\ sessions[1][s1].decorator = sessions[1][s2].decorator)
            => HookOrder(sessions[1][s1].log) = HookOrder(sessions[1][s2].log)

\* C30: when execute calls overlap, each call invokes every tagged hook
\* exactly once: no hook twice at any time, and all of them by the time the
\* call returns, whatever the other call has done meanwhile.  No call fails
\* because of the other: the only calls that fail are those on a registry
\* where A is registered and 'name', which A requires, is not.
C30_OverlapEachHookOnce ==
    \A s \in 1..Len(sessions[1]) :
        /\ NoHookTwice(sessions[1][s])
        /\ sessions[1][s].status = "fulfilled" => EveryHookOnce(Items(1), sessions[1][s])
        /\ sessions[1][s].status = "rejected" =>
               /\ ItemOf(1, Cls("A")) # 0
               /\ Items(1)[ItemOf(1, Str("name"))].provider = Undefined

\* the second call was started while the first awaited a hook, and has
\* returned while the first still awaits one; both have run Hub.link, and
\* both have appended Spoke to the dependencies of Hub
C30_Witness ==
    /\ Len(sessions[1]) = 2
    /\ sessions[1][1].status = "pending" /\ Top(sessions[1][1]).phase = "hook"
    /\ sessions[1][2].status = "fulfilled"
    /\ Count(sessions[1][1].log, "invoke", Cls("Hub"), "link") = 1
    /\ Count(sessions[1][2].log, "invoke", Cls("Hub"), "link") = 1
    /\ Count(sessions[1][2].log, "invoke", Cls("Spoke"), "run") = 1
    /\ Items(1)[ItemOf(1, Cls("Hub"))].dependencies = <<Cls("Spoke"), Cls("Spoke")>>

====
